---------------------------- MODULE Spec2Model ----------------------------
(***************************************************************************)
(* Model of the PCAN bridge service (Backend/app/services/pcan_service.py):*)
(* the connection lifecycle, the reader loop thread, the read/correlation  *)
(* buffers, the streamed session log file and the timer sequencer thread.  *)
(*                                                                         *)
(* Scheduling: the request handlers of routers/pcan.py are `async def`     *)
(* functions calling the service synchronously, so one foreground call runs*)
(* at a time (fgPc); the reader and timer threads are preemptible and       *)
(* interleave with it at every access to shared state.  One action is one  *)
(* access to shared state (or to the device) together with the thread-local *)
(* computation that follows it.  Time is abstracted: a timed wait or a     *)
(* bounded join may expire at any step.                                    *)
(***************************************************************************)
EXTENDS Integers, Sequences, FiniteSets, TLC

(***************************************************************************)
(* Bounds of the model.                                                    *)
(***************************************************************************)
\* frames the device delivers in one behaviour
MaxFrames == 3
\* reader threads ever started (thread ids are not reused)
MaxReaders == 2
\* timer threads ever started
MaxTimers == 2
\* capacity of read_buffer (deque(maxlen=2000) in the source, scaled down)
ReadBufferMaxLen == 2
\* capacity of timer_response_buffer (deque(maxlen=1000), scaled down)
ResponseBufferMaxLen == 2
\* capacity of timer_logs (deque(maxlen=1000), scaled down)
TimerLogsMaxLen == 4
\* session headers ever written to the session log
MaxSessions == 2
\* save_data calls, and messages in one call
MaxSaves == 3
MaxBatch == 2

(***************************************************************************)
(* Program constants.                                                      *)
(***************************************************************************)
\* base_id + 129 and base_id + 130 are the accepted response identifiers
RespOffset1 == 129
RespOffset2 == 130
\* 0x7FF, the largest standard identifier
StdIdMax == 2047
\* locals().get('interval_ms', 1000)
DefaultPostInterval == 1000
\* bytes save_data scans backwards for the bracket, and from it for '['
SearchLimit == 50
SearchBackLimit == 50

None == "None"

\* channel names of channel_map, and one name outside it
ValidChannels == {"PCAN_USBBUS1"}
Channels == ValidChannels \cup {"PCAN_BAD"}
\* baudrate names of baudrate_map, and one name outside it
ValidBaudrates == {"PCAN_BAUD_500K", "PCAN_BAUD_250K"}
Baudrates == ValidBaudrates \cup {"BAUD_BAD"}

\* identifiers of the frames the device delivers
FrameIds == {1409, 1410, 1411}
\* base identifiers a caller passes to start_timer_sequence
BaseIds == {1280, 1281}
\* the request's default interval (TimerStartRequest.interval)
DefaultIntervals == {2000}

ReaderIds == 1..MaxReaders
TimerIds == 1..MaxTimers

(***************************************************************************)
(* Pure helpers.                                                           *)
(***************************************************************************)
RECURSIVE HexDigits(_)
\* the hexadecimal digits of n, most significant first (at least one digit)
HexDigits(n) == IF n < 16 THEN <<n>> ELSE Append(HexDigits(n \div 16), n % 16)

RECURSIVE ZeroPad(_, _)
ZeroPad(s, w) == IF Len(s) >= w THEN s ELSE ZeroPad(<<0>> \o s, w)

\* f"{n:03X}"
FormatId(n) == ZeroPad(HexDigits(n), 3)

RECURSIVE ParseHex(_)
\* int(s, 16) on a digit string
ParseHex(s) == IF s = <<>> THEN 0
               ELSE 16 * ParseHex(SubSeq(s, 1, Len(s) - 1)) + s[Len(s)]

\* a deque that drops the new element when full
DequeAppend_DropNewest(q, x, cap) ==
    IF Len(q) >= cap THEN q ELSE Append(q, x)

\* deque(maxlen=cap).append(x): drops the oldest element when full
DequeAppend(q, x, cap) ==
    IF cap = 0 THEN <<>>
    ELSE IF Len(q) >= cap THEN Append(Tail(q), x)
    ELSE Append(q, x)

(***************************************************************************)
(* The session log file, as the sequence of lexical tokens written to it.  *)
(* LB "[", RB "]", COMMA ",", NL a run of whitespace, HDR the text         *)
(* `{"initializationTime": "...", "messages": [`, REC one JSON record,     *)
(* END the text `], "releaseTime": "..." }`.  LB, RB, COMMA and NL are one *)
(* byte long; the other tokens are longer and end in a non-bracket byte.   *)
(***************************************************************************)
Tok(t) == [tok |-> t, id |-> <<>>, data |-> <<>>]
LB == Tok("LB")
RB == Tok("RB")
COMMA == Tok("COMMA")
NL == Tok("NL")
HDR == Tok("HDR")
END == Tok("END")

\* ' '.join(f"{x:02X}" for x in data): one two-digit group per byte
HexData(data) == [i \in 1..Len(data) |-> ZeroPad(HexDigits(data[i]), 2)]

\* the record the reader loop streams for a frame (wall-clock time left out)
RecordOf(item) == [tok |-> "REC", id |-> item.id, data |-> HexData(item.data)]

\* f.tell() > 1 at the end of the file
MoreThanOneByte(f) ==
    \/ Len(f) >= 2
    \/ Len(f) = 1 /\ f[1].tok \in {"HDR", "REC", "END"}

\* the last byte of the file is ']'
EndsWithBracket(f) == Len(f) >= 1 /\ f[Len(f)].tok = "RB"

\* lines 174-203: strip the trailing ']' of an existing file, then ',\n'
StripAndSeparate(f) ==
    IF MoreThanOneByte(f) /\ EndsWithBracket(f)
    THEN SubSeq(f, 1, Len(f) - 1) \o <<COMMA, NL>>
    ELSE f

\* lines 172-211: the file after the session header has been written
OpenSession(exists, f) ==
    (IF exists THEN StripAndSeparate(f) ELSE <<LB, NL>>) \o <<HDR, NL>>

\* lines 261-263: the text release() writes to close the session and the array
CloseSessionText == <<NL, END>>
CloseArrayText == <<NL, RB>>

NumSessions(f) == Cardinality({i \in 1..Len(f) : f[i].tok = "HDR"})


(***************************************************************************)
(* Command scripts.  A script is a sequence of rows, a row a sequence of   *)
(* fields, a field a string of one of these kinds: "hex", a 0x-literal     *)
(* with hexadecimal digits d; "dec", a decimal literal of value v;         *)
(* "empty", blank; "text", any other text; "hdr", one of the header words  *)
(* id, can_id, command.                                                    *)
(***************************************************************************)
Hex(d) == [k |-> "hex", v |-> 0, d |-> d]
Dec(v) == [k |-> "dec", v |-> v, d |-> <<>>]
Blank == [k |-> "empty", v |-> 0, d |-> <<>>]
Text == [k |-> "text", v |-> 0, d |-> <<>>]
Header == [k |-> "hdr", v |-> 0, d |-> <<>>]

\* the low n bytes of a non-negative value, most significant first
RECURSIVE LowBytes(_, _)
LowBytes(v, n) == IF n = 0 THEN <<>> ELSE Append(LowBytes(v \div 256, n - 1), v % 256)

\* the low n bytes of a hexadecimal digit string, most significant first
HexLowBytes(d, n) ==
    LET p == ZeroPad(d, 2 * n)
        q == SubSeq(p, Len(p) - 2 * n + 1, Len(p))
    IN [i \in 1..n |-> 16 * q[2 * i - 1] + q[2 * i]]

\* a parse that gives up on a hexadecimal value too large for n bytes
parse_hex_bytes_HexOverflowZero(f, n) ==
    IF f.k = "hex"
    THEN IF Len(f.d) > 2 * n THEN [i \in 1..n |-> 0] ELSE HexLowBytes(f.d, n)
    ELSE IF f.k = "dec"
    THEN IF f.v >= 0 THEN LowBytes(f.v, n)
         ELSE [i \in 1..n |-> 255 - LowBytes(-f.v - 1, n)[i]]
    ELSE [i \in 1..n |-> 0]

\* _parse_hex_bytes, lines 700-715: int(val_str, 0), then to_bytes with the
\* value masked to the low n bytes (a negative value in two's complement)
parse_hex_bytes(f, n) ==
    IF f.k = "hex" THEN HexLowBytes(f.d, n)
    ELSE IF f.k = "dec"
    THEN IF f.v >= 0 THEN LowBytes(f.v, n)
         ELSE [i \in 1..n |-> 255 - LowBytes(-f.v - 1, n)[i]]
    ELSE [i \in 1..n |-> 0]

\* int(s, 0) and int(s) on a field, and when they raise
Base0Ok(f) == f.k \in {"hex", "dec"}
Base0(f) == IF f.k = "hex" THEN ParseHex(f.d) ELSE f.v
Base10Ok(f) == f.k = "dec"

FieldOr(row, i, default) == IF Len(row) >= i THEN row[i] ELSE default

\* a repeat count taken as it is
normalize_repeat_Keep(repeat_val) == repeat_val

\* line 685: if repeat_val <= 0: repeat_val = 1
normalize_repeat(repeat_val) == IF repeat_val <= 0 THEN 1 ELSE repeat_val

\* lines 644-696: the commands one row yields (none when it is skipped)
parse_row(row, default_interval) ==
    IF row = <<>> \/ \A i \in 1..Len(row) : row[i].k = "empty" THEN <<>>
    ELSE IF row[1].k = "hdr" \/ ~Base0Ok(row[1]) THEN <<>>
    ELSE LET iv == FieldOr(row, 4, Blank)
             rp == FieldOr(row, 5, Blank)
             repeat_val == IF Base10Ok(rp) THEN rp.v ELSE 1
         IN << [id |-> Base0(row[1]),
                data |-> parse_hex_bytes(FieldOr(row, 2, Dec(0)), 2)
                         \o parse_hex_bytes(FieldOr(row, 3, Dec(0)), 6),
                interval |-> IF Base10Ok(iv) THEN iv.v ELSE default_interval,
                repeat |-> normalize_repeat(repeat_val)] >>

\* _parse_commands, lines 632-698
RECURSIVE parse_commands(_, _)
parse_commands(rows, default_interval) ==
    IF rows = <<>> THEN <<>>
    ELSE parse_row(Head(rows), default_interval)
         \o parse_commands(Tail(rows), default_interval)

\* the script of the specification's end-to-end scenario:
\* 0x123, 0x0102, 0x030405060708, 100, 2
ScriptScenario ==
    << <<Hex(<<1, 2, 3>>), Hex(<<0, 1, 0, 2>>),
         Hex(<<0, 3, 0, 4, 0, 5, 0, 6, 0, 7, 0, 8>>), Dec(100), Dec(2)>> >>
\* a header row, then two commands: 0x123 with interval 0, and 0x800 with the
\* default interval and repeat 0
ScriptTwo ==
    << <<Header, Text>>,
       <<Hex(<<1, 2, 3>>), Hex(<<1>>), Dec(2), Dec(0), Dec(1)>>,
       <<Hex(<<8, 0, 0>>), Dec(3), Hex(<<4>>), Blank, Dec(0)>> >>
\* no row yields a command
ScriptInvalid == << <<Text, Dec(1)>>, <<Blank>> >>
Scripts == {ScriptScenario, ScriptTwo, ScriptInvalid}

\* texts of the command-type column (two bytes): short, exact and too
\* large hexadecimal and decimal values, a blank and a word
CmdFields ==
    {Hex(<<1>>), Hex(<<0, 1, 0, 2>>), Hex(<<1, 2, 3, 4, 5>>),
     Dec(0), Dec(10), Dec(70000), Blank, Text}
\* texts of the payload column (six bytes)
PayFields ==
    {Hex(<<1>>), Hex(<<0, 3, 0, 4, 0, 5, 0, 6, 0, 7, 0, 8>>),
     Hex(<<15, 14, 0, 0, 0, 0, 0, 0, 0, 0, 0, 1, 2, 3>>),
     Dec(0), Dec(258), Dec(70000)}
\* texts of the repeat column
RepeatFields == {Dec(-1), Dec(0), Dec(1), Dec(2), Dec(3), Blank, Text}
\* the one-row script with these command-type and payload texts
RowOfData(f2, f6) == << <<Hex(<<1>>), f2, f6, Dec(1), Dec(1)>> >>
\* the one-row script with this repeat text
RowOfRepeat(rp) == << <<Hex(<<1>>), Dec(1), Dec(2), Dec(1), rp>> >>
\* the one-row script without a repeat column
RowWithoutRepeat == << <<Hex(<<1>>), Dec(1), Dec(2), Dec(1)>> >>
ParseScripts ==
    {RowOfData(f2, f6) : f2 \in CmdFields, f6 \in PayFields}
    \cup {RowOfRepeat(rp) : rp \in RepeatFields}
    \cup {RowWithoutRepeat}

\* for each command in order, `repeat` copies of it
RECURSIVE Expand(_)
Expand(commands) ==
    IF commands = <<>> THEN <<>>
    ELSE [i \in 1..Head(commands).repeat |-> Head(commands)] \o Expand(Tail(commands))

\* sum(cmd['repeat'] for cmd in commands)
RECURSIVE TotalRepeat(_)
TotalRepeat(commands) ==
    IF commands = <<>> THEN 0
    ELSE Head(commands).repeat + TotalRepeat(Tail(commands))

VARIABLES
    pcan_available,        \* PCANBasic library loaded
    initialized, channel, baudrate, message_counter,
    read_buffer,           \* deque(maxlen=2000)
    recording, stream_file, first_message,
    file_exists, file,     \* the session log on disk, as a token sequence
    reader_running, reader_thread,
    rpc, ritem, rch,       \* reader threads: position, frame in hand, handle
    devOpen,               \* channels the device holds initialized
    delivered,             \* number of frames the device has delivered
    devEvent,              \* the device call made in the step just taken; of a
                           \* Write also the caller's `extended` argument (req)
                           \* and the status the device returned
    fgPc, fgRet, fgMsgs, fgRes, fgArg,    \* the foreground call
    fgSnap,                \* history: read_buffer when read_all_messages was called
    timer_running, timer_thread, timer_logs, timer_response_buffer,
    stop_timer_event,
    tpc, tloc,             \* timer threads: position, local variables
    heard,                 \* history: frames delivered while a run listened
    data_file_exists, data_file,   \* the file save_data writes, as a token sequence
    saved                  \* history: the message lists of the save_data calls

vars == <<pcan_available, initialized, channel, baudrate, message_counter,
          read_buffer, recording, stream_file, first_message, file_exists, file,
          reader_running, reader_thread, rpc, ritem, rch, devOpen, delivered,
          devEvent, fgPc, fgRet, fgMsgs, fgRes, fgArg, fgSnap, timer_running,
          timer_thread,
          timer_logs, timer_response_buffer, stop_timer_event, tpc, tloc, heard,
          data_file_exists, data_file, saved>>

NoItem == [id |-> <<>>, data |-> <<>>, timestamp |-> 0]
NoRet == [op |-> None, success |-> FALSE, error |-> None, messages |-> <<>>,
          running |-> FALSE]
NoEvent == [op |-> None, ch |-> None, by |-> None, id |-> 0, ext |-> FALSE,
            data |-> <<>>, req |-> FALSE, status |-> None]
NoLocals == [commands |-> <<>>, base_id |-> 0, ci |-> 0, ri |-> 0, can_id |-> -1,
             interval_ms |-> -1, res |-> None, received |-> <<>>, out |-> <<>>,
             attempts |-> <<>>, cancelled |-> FALSE, stopped |-> FALSE,
             errored |-> FALSE, tried |-> -1]

\* a call to the device: what, on which handle, by which thread
DevCall(op, ch, by) == [NoEvent EXCEPT !.op = op, !.ch = ch, !.by = by]

(***************************************************************************)
(* fgRet and devEvent describe the step just taken: the result a           *)
(* foreground call returned in it and the device call made in it.  Every   *)
(* other step resets them.                                                 *)
(***************************************************************************)
\* the foreground call `op` returns
Return(op, success, error, msgs) ==
    /\ fgPc' = "idle"
    /\ fgRet' = [op |-> op, success |-> success, error |-> error,
                 messages |-> msgs, running |-> FALSE]
    /\ fgMsgs' = <<>>
    /\ fgRes' = None
    /\ fgArg' = 0
    /\ fgSnap' = <<>>

\* the foreground call moves on to its step `pc`
Goto(pc) ==
    /\ fgPc' = pc
    /\ fgRet' = NoRet

\* a step of a background thread
Background ==
    /\ fgRet' = NoRet
    /\ UNCHANGED <<fgPc, fgMsgs, fgRes, fgArg, fgSnap>>

\* the step makes no call to the device
NoDevCall == devEvent' = NoEvent

\* PCANService.__init__
Init ==
    /\ pcan_available \in BOOLEAN
    /\ initialized = FALSE
    /\ channel = None
    /\ baudrate = None
    /\ message_counter = 0
    /\ read_buffer = <<>>
    /\ recording = FALSE
    /\ stream_file = None
    /\ first_message = TRUE
    /\ file_exists = FALSE
    /\ file = <<>>
    /\ reader_running = FALSE
    /\ reader_thread = 0
    /\ rpc = [r \in ReaderIds |-> "unborn"]
    /\ ritem = [r \in ReaderIds |-> NoItem]
    /\ rch = [r \in ReaderIds |-> None]
    /\ devOpen = {}
    /\ delivered = 0
    /\ devEvent = NoEvent
    /\ fgPc = "idle"
    /\ fgRet = NoRet
    /\ fgMsgs = <<>>
    /\ fgRes = None
    /\ fgArg = 0
    /\ fgSnap = <<>>
    /\ timer_running = FALSE
    /\ timer_thread = 0
    /\ timer_logs = <<>>
    /\ timer_response_buffer = <<>>
    /\ stop_timer_event = FALSE
    /\ tpc = [t \in TimerIds |-> "unborn"]
    /\ tloc = [t \in TimerIds |-> NoLocals]
    /\ heard = {}
    /\ data_file_exists = FALSE
    /\ data_file = <<>>
    /\ saved = <<>>

(***************************************************************************)
(* initialize(channel, baudrate), lines 105-245.                           *)
(***************************************************************************)
\* the thread ids not used yet
FreeReader == {r \in ReaderIds : rpc[r] = "unborn"}

\* lines 238-245, the finally clause: start the reader loop when needed
StartReaderIfNeeded ==
    IF initialized' /\ ~reader_running /\ pcan_available /\ FreeReader # {}
    THEN LET r == CHOOSE x \in FreeReader : \A y \in FreeReader : x <= y
         IN /\ reader_running' = TRUE
            /\ reader_thread' = r
            /\ rpc' = [rpc EXCEPT ![r] = "check"]
    ELSE UNCHANGED <<reader_running, reader_thread, rpc>>

\* an initialize that stores the channel and the bit rate before it knows
\* the device's answer
initialize_Call_StoresFirst(ch, bd) ==
    /\ fgPc = "idle"
    /\ IF ~pcan_available \/ ch \notin ValidChannels \/ bd \notin ValidBaudrates
       THEN /\ Return("initialize", FALSE, "invalid", <<>>)
            /\ NoDevCall
            /\ UNCHANGED <<initialized, channel, baudrate, message_counter, devOpen>>
            /\ StartReaderIfNeeded
       ELSE \E result \in {"OK", "CAUTION", "ERROR"} :
            /\ devEvent' = DevCall("Initialize", ch, "fg")
            /\ channel' = ch
            /\ baudrate' = bd
            /\ IF result \in {"OK", "CAUTION"}
               THEN /\ NumSessions(file) < MaxSessions
                    /\ reader_running \/ FreeReader # {}
                    /\ devOpen' = devOpen \cup {ch}
                    /\ initialized' = TRUE
                    /\ message_counter' = 0
                    /\ Goto("init_open")
                    /\ UNCHANGED <<fgMsgs, fgRes, fgArg, fgSnap, reader_running, reader_thread,
                                   rpc>>
               ELSE /\ Return("initialize", FALSE, "device", <<>>)
                    /\ UNCHANGED <<initialized, message_counter, devOpen>>
                    /\ StartReaderIfNeeded
    /\ UNCHANGED <<pcan_available, read_buffer, recording, stream_file, first_message,
                   file_exists, file, ritem, rch, delivered, timer_running,
                   timer_thread, timer_logs, timer_response_buffer, stop_timer_event,
                   tpc, tloc, heard, data_file_exists, data_file, saved>>

\* lines 107-137: validation, the device call and the connection state
initialize_Call(ch, bd) ==
    /\ fgPc = "idle"
    /\ IF ~pcan_available \/ ch \notin ValidChannels \/ bd \notin ValidBaudrates
       THEN /\ Return("initialize", FALSE, "invalid", <<>>)
            /\ NoDevCall
            /\ UNCHANGED <<initialized, channel, baudrate, message_counter, devOpen>>
            /\ StartReaderIfNeeded
       ELSE \E result \in {"OK", "CAUTION", "ERROR"} :
            /\ devEvent' = DevCall("Initialize", ch, "fg")
            /\ IF result \in {"OK", "CAUTION"}
               THEN /\ NumSessions(file) < MaxSessions
                    /\ reader_running \/ FreeReader # {}
                    /\ devOpen' = devOpen \cup {ch}
                    /\ initialized' = TRUE
                    /\ channel' = ch
                    /\ baudrate' = bd
                    /\ message_counter' = 0
                    /\ Goto("init_open")
                    /\ UNCHANGED <<fgMsgs, fgRes, fgArg, fgSnap, reader_running, reader_thread,
                                   rpc>>
               ELSE /\ Return("initialize", FALSE, "device", <<>>)
                    /\ UNCHANGED <<initialized, channel, baudrate, message_counter,
                                   devOpen>>
                    /\ StartReaderIfNeeded
    /\ UNCHANGED <<pcan_available, read_buffer, recording, stream_file, first_message,
                   file_exists, file, ritem, rch, delivered, timer_running,
                   timer_thread, timer_logs, timer_response_buffer, stop_timer_event,
                   tpc, tloc, heard, data_file_exists, data_file, saved>>

\* lines 170-211: open the session log and write the session header
initialize_Open ==
    /\ fgPc = "init_open"
    /\ file' = OpenSession(file_exists, file)
    /\ file_exists' = TRUE
    /\ stream_file' = "open"
    /\ Goto("init_rec")
    /\ NoDevCall
    /\ UNCHANGED <<pcan_available, initialized, channel, baudrate, message_counter,
                   read_buffer, recording, first_message, reader_running,
                   reader_thread, rpc, ritem, rch, devOpen, delivered, fgMsgs, fgRes,
                   fgArg, fgSnap, timer_running, timer_thread, timer_logs,
                   timer_response_buffer, stop_timer_event, tpc, tloc, heard,
                   data_file_exists, data_file, saved>>

\* line 212
initialize_Recording ==
    /\ fgPc = "init_rec"
    /\ recording' = TRUE
    /\ Goto("init_first")
    /\ NoDevCall
    /\ UNCHANGED <<pcan_available, initialized, channel, baudrate, message_counter,
                   read_buffer, stream_file, first_message, file_exists, file,
                   reader_running, reader_thread, rpc, ritem, rch, devOpen, delivered,
                   fgMsgs, fgRes, fgArg, fgSnap, timer_running, timer_thread,
                   timer_logs, timer_response_buffer, stop_timer_event, tpc, tloc,
                   heard, data_file_exists, data_file, saved>>

\* line 213
initialize_FirstMessage ==
    /\ fgPc = "init_first"
    /\ first_message' = TRUE
    /\ Goto("init_finally")
    /\ NoDevCall
    /\ UNCHANGED <<pcan_available, initialized, channel, baudrate, message_counter,
                   read_buffer, recording, stream_file, file_exists, file,
                   reader_running, reader_thread, rpc, ritem, rch, devOpen, delivered,
                   fgMsgs, fgRes, fgArg, fgSnap, timer_running, timer_thread,
                   timer_logs, timer_response_buffer, stop_timer_event, tpc, tloc,
                   heard, data_file_exists, data_file, saved>>

\* lines 217-220 and 238-245: the success result, after the finally clause
initialize_Finally ==
    /\ fgPc = "init_finally"
    /\ UNCHANGED initialized
    /\ StartReaderIfNeeded
    /\ Return("initialize", TRUE, None, <<>>)
    /\ NoDevCall
    /\ UNCHANGED <<pcan_available, channel, baudrate, message_counter, read_buffer,
                   recording, stream_file, first_message, file_exists, file, ritem,
                   rch, devOpen, delivered, timer_running, timer_thread, timer_logs,
                   timer_response_buffer, stop_timer_event, tpc, tloc, heard,
                   data_file_exists, data_file, saved>>

(***************************************************************************)
(* release(), lines 247-301.                                               *)
(***************************************************************************)

\* lines 249-251: the connected check and the stop request to the reader
release_Call ==
    /\ fgPc = "idle"
    /\ IF ~initialized
       THEN /\ Return("release", FALSE, "PCAN not initialized", <<>>)
            /\ UNCHANGED reader_running
       ELSE IF reader_running
       THEN /\ reader_running' = FALSE
            /\ Goto("rel_join")
            /\ UNCHANGED <<fgMsgs, fgRes, fgArg, fgSnap>>
       ELSE /\ Goto("rel_close")
            /\ UNCHANGED <<reader_running, fgMsgs, fgRes, fgArg, fgSnap>>
    /\ NoDevCall
    /\ UNCHANGED <<pcan_available, initialized, channel, baudrate, message_counter,
                   read_buffer, recording, stream_file, first_message, file_exists,
                   file, reader_thread, rpc, ritem, rch, devOpen, delivered,
                   timer_running, timer_thread, timer_logs, timer_response_buffer,
                   stop_timer_event, tpc, tloc, heard, data_file_exists, data_file,
                   saved>>

\* reader_thread.join(timeout=1.0) has come back: the thread has ended, or
\* the timeout has passed
JoinedReader(timeout) ==
    \/ reader_thread = 0
    \/ rpc[reader_thread] = "dead"
    \/ timeout

\* lines 252-256: the bounded join
release_Join ==
    /\ fgPc = "rel_join"
    /\ \E timeout \in BOOLEAN : JoinedReader(timeout)
    /\ Goto("rel_close")
    /\ NoDevCall
    /\ UNCHANGED <<fgMsgs, fgRes, fgArg, fgSnap>>
    /\ UNCHANGED <<pcan_available, initialized, channel, baudrate, message_counter,
                   read_buffer, recording, stream_file, first_message, file_exists,
                   file, reader_running, reader_thread, rpc, ritem, rch, devOpen,
                   delivered, timer_running, timer_thread, timer_logs,
                   timer_response_buffer, stop_timer_event, tpc, tloc, heard,
                   data_file_exists, data_file, saved>>

\* lines 259-261: the session's closing text
release_CloseSession ==
    /\ fgPc = "rel_close"
    /\ IF recording /\ stream_file # None
       THEN /\ file' = file \o CloseSessionText
            /\ Goto("rel_bracket")
       ELSE /\ UNCHANGED file
            /\ Goto("rel_uninit")
    /\ NoDevCall
    /\ UNCHANGED <<pcan_available, initialized, channel, baudrate, message_counter,
                   read_buffer, recording, stream_file, first_message, file_exists,
                   reader_running, reader_thread, rpc, ritem, rch, devOpen, delivered,
                   fgMsgs, fgRes, fgArg, fgSnap, timer_running, timer_thread,
                   timer_logs, timer_response_buffer, stop_timer_event, tpc, tloc,
                   heard, data_file_exists, data_file, saved>>

\* line 263: the array's closing bracket
release_CloseArray ==
    /\ fgPc = "rel_bracket"
    /\ file' = file \o CloseArrayText
    /\ Goto("rel_fclose")
    /\ NoDevCall
    /\ UNCHANGED <<pcan_available, initialized, channel, baudrate, message_counter,
                   read_buffer, recording, stream_file, first_message, file_exists,
                   reader_running, reader_thread, rpc, ritem, rch, devOpen, delivered,
                   fgMsgs, fgRes, fgArg, fgSnap, timer_running, timer_thread,
                   timer_logs, timer_response_buffer, stop_timer_event, tpc, tloc,
                   heard, data_file_exists, data_file, saved>>

\* lines 264-268: close the file object and stop recording
release_CloseFile ==
    /\ fgPc = "rel_fclose"
    /\ stream_file' = None
    /\ recording' = FALSE
    /\ Goto("rel_uninit")
    /\ NoDevCall
    /\ UNCHANGED <<pcan_available, initialized, channel, baudrate, message_counter,
                   read_buffer, first_message, file_exists, file, reader_running,
                   reader_thread, rpc, ritem, rch, devOpen, delivered, fgMsgs, fgRes,
                   fgArg, fgSnap, timer_running, timer_thread, timer_logs,
                   timer_response_buffer, stop_timer_event, tpc, tloc, heard,
                   data_file_exists, data_file, saved>>

\* line 270: the device call
release_Uninitialize ==
    /\ fgPc = "rel_uninit"
    /\ \E result \in {"OK", "ERROR"} :
        /\ devEvent' = DevCall("Uninitialize", channel, "fg")
        /\ devOpen' = IF result = "OK" THEN devOpen \ {channel} ELSE devOpen
        /\ fgRes' = result
    /\ Goto("rel_reset")
    /\ UNCHANGED <<pcan_available, initialized, channel, baudrate, message_counter,
                   read_buffer, recording, stream_file, first_message, file_exists,
                   file, reader_running, reader_thread, rpc, ritem, rch, delivered,
                   fgMsgs, fgArg, fgSnap, timer_running, timer_thread, timer_logs,
                   timer_response_buffer, stop_timer_event, tpc, tloc, heard,
                   data_file_exists, data_file, saved>>

\* a release that resets the connection state only when the device said OK
release_Reset_OnlyIfOk ==
    /\ fgPc = "rel_reset"
    /\ initialized' = (initialized /\ fgRes # "OK")
    /\ channel' = IF fgRes = "OK" THEN None ELSE channel
    /\ baudrate' = IF fgRes = "OK" THEN None ELSE baudrate
    /\ message_counter' = IF fgRes = "OK" THEN 0 ELSE message_counter
    /\ Goto("rel_clear")
    /\ NoDevCall
    /\ UNCHANGED <<pcan_available, read_buffer, recording, stream_file, first_message,
                   file_exists, file, reader_running, reader_thread, rpc, ritem, rch,
                   devOpen, delivered, fgMsgs, fgRes, fgArg, fgSnap, timer_running,
                   timer_thread, timer_logs, timer_response_buffer, stop_timer_event,
                   tpc, tloc, heard, data_file_exists, data_file, saved>>

\* lines 271-274: the connection state is reset
release_Reset ==
    /\ fgPc = "rel_reset"
    /\ initialized' = FALSE
    /\ channel' = None
    /\ baudrate' = None
    /\ message_counter' = 0
    /\ Goto("rel_clear")
    /\ NoDevCall
    /\ UNCHANGED <<pcan_available, read_buffer, recording, stream_file, first_message,
                   file_exists, file, reader_running, reader_thread, rpc, ritem, rch,
                   devOpen, delivered, fgMsgs, fgRes, fgArg, fgSnap, timer_running,
                   timer_thread, timer_logs, timer_response_buffer, stop_timer_event,
                   tpc, tloc, heard, data_file_exists, data_file, saved>>

\* lines 275-291: the read buffer is cleared and the result returned
release_Clear ==
    /\ fgPc = "rel_clear"
    /\ read_buffer' = <<>>
    /\ IF fgRes = "OK"
       THEN Return("release", TRUE, None, <<>>)
       ELSE Return("release", FALSE, "Failed to release PCAN", <<>>)
    /\ NoDevCall
    /\ UNCHANGED <<pcan_available, initialized, channel, baudrate, message_counter,
                   recording, stream_file, first_message, file_exists, file,
                   reader_running, reader_thread, rpc, ritem, rch, devOpen, delivered,
                   timer_running, timer_thread, timer_logs, timer_response_buffer,
                   stop_timer_event, tpc, tloc, heard, data_file_exists, data_file,
                   saved>>

(***************************************************************************)
(* _reader_loop(), lines 495-563, one instance per started thread r.       *)
(***************************************************************************)

\* line 497: the loop condition (reached again after each time.sleep(0.05))
reader_loop_Check(r) ==
    /\ rpc[r] = "check"
    /\ rpc' = [rpc EXCEPT ![r] =
                 IF reader_running /\ initialized /\ pcan_available
                 THEN "chan" ELSE "dead"]
    /\ Background
    /\ NoDevCall
    /\ UNCHANGED <<pcan_available, initialized, channel, baudrate, message_counter,
                   read_buffer, recording, stream_file, first_message, file_exists,
                   file, reader_running, reader_thread, ritem, rch, devOpen, delivered,
                   timer_running, timer_thread, timer_logs, timer_response_buffer,
                   stop_timer_event, tpc, tloc, heard, data_file_exists, data_file,
                   saved>>

\* lines 499-502: the channel handle; without one the loop sleeps and retries
reader_loop_Channel(r) ==
    /\ rpc[r] = "chan"
    /\ rch' = [rch EXCEPT ![r] = channel]
    /\ rpc' = [rpc EXCEPT ![r] = IF channel = None THEN "check" ELSE "read"]
    /\ Background
    /\ NoDevCall
    /\ UNCHANGED <<pcan_available, initialized, channel, baudrate, message_counter,
                   read_buffer, recording, stream_file, first_message, file_exists,
                   file, reader_running, reader_thread, ritem, devOpen, delivered,
                   timer_running, timer_thread, timer_logs, timer_response_buffer,
                   stop_timer_event, tpc, tloc, heard, data_file_exists, data_file,
                   saved>>

\* the frame the device hands out next: its payload byte is its arrival number
DeviceFrame(id) ==
    [id |-> FormatId(id), data |-> <<delivered + 1>>, timestamp |-> delivered + 1]

\* the timer thread t is between its start and the end of its post-sequence
\* listening window (lines 718-825)
Listening(t) ==
    tpc[t] \in {"begin", "cmd", "rep", "wcheck", "wdev", "logsend", "wait", "drain",
                "pop", "pwait", "pdrain", "ppop"}

\* history: the frame is noted for every run that is listening when the
\* device delivers it
Hear(frame) == heard \cup {[t |-> t, frame |-> frame] : t \in {x \in TimerIds : Listening(x)}}

\* lines 505-526: pcan.Read returns a frame (only an initialized channel does)
reader_loop_ReadOk(r, ids) ==
    /\ rpc[r] = "read"
    /\ rch[r] \in devOpen
    /\ delivered < MaxFrames
    /\ \E id \in ids :
         /\ ritem' = [ritem EXCEPT ![r] = DeviceFrame(id)]
         /\ heard' = Hear(DeviceFrame(id))
    /\ delivered' = delivered + 1
    /\ devEvent' = DevCall("Read", rch[r], "reader")
    /\ rpc' = [rpc EXCEPT ![r] = "push"]
    /\ Background
    /\ UNCHANGED <<pcan_available, initialized, channel, baudrate, message_counter,
                   read_buffer, recording, stream_file, first_message, file_exists,
                   file, reader_running, reader_thread, rch, devOpen, timer_running,
                   timer_thread, timer_logs, timer_response_buffer, stop_timer_event,
                   tpc, tloc, data_file_exists, data_file, saved>>

\* lines 505-526 on a bus that is never idle: pcan.Read returns a frame
\* however often it is called; the frames of the flood are not numbered
reader_loop_ReadFlood(r, ids) ==
    /\ rpc[r] = "read"
    /\ rch[r] \in devOpen
    /\ \E id \in ids :
         /\ ritem' = [ritem EXCEPT ![r] = DeviceFrame(id)]
         /\ heard' = Hear(DeviceFrame(id))
    /\ UNCHANGED delivered
    /\ devEvent' = DevCall("Read", rch[r], "reader")
    /\ rpc' = [rpc EXCEPT ![r] = "push"]
    /\ Background
    /\ UNCHANGED <<pcan_available, initialized, channel, baudrate, message_counter,
                   read_buffer, recording, stream_file, first_message, file_exists,
                   file, reader_running, reader_thread, rch, devOpen, timer_running,
                   timer_thread, timer_logs, timer_response_buffer, stop_timer_event,
                   tpc, tloc, data_file_exists, data_file, saved>>

\* a reader loop that ends when a read brings no frame
reader_loop_ReadNone_Exit(r) ==
    /\ rpc[r] = "read"
    /\ devEvent' = DevCall("Read", rch[r], "reader")
    /\ rpc' = [rpc EXCEPT ![r] = "dead"]
    /\ rch' = [rch EXCEPT ![r] = None]
    /\ Background
    /\ UNCHANGED <<pcan_available, initialized, channel, baudrate, message_counter,
                   read_buffer, recording, stream_file, first_message, file_exists,
                   file, reader_running, reader_thread, ritem, devOpen, delivered,
                   timer_running, timer_thread, timer_logs, timer_response_buffer,
                   stop_timer_event, tpc, tloc, heard, data_file_exists, data_file,
                   saved>>

\* lines 553-561: queue empty, another status or an exception: break, sleep
reader_loop_ReadNone(r) ==
    /\ rpc[r] = "read"
    /\ devEvent' = DevCall("Read", rch[r], "reader")
    /\ rpc' = [rpc EXCEPT ![r] = "check"]
    /\ rch' = [rch EXCEPT ![r] = None]
    /\ Background
    /\ UNCHANGED <<pcan_available, initialized, channel, baudrate, message_counter,
                   read_buffer, recording, stream_file, first_message, file_exists,
                   file, reader_running, reader_thread, ritem, devOpen, delivered,
                   timer_running, timer_thread, timer_logs, timer_response_buffer,
                   stop_timer_event, tpc, tloc, heard, data_file_exists, data_file,
                   saved>>

\* a reader loop that feeds the response buffer whether or not a timer
\* sequence runs
reader_loop_Push_Unconditional(r) ==
    /\ rpc[r] = "push"
    /\ read_buffer' = DequeAppend(read_buffer, ritem[r], ReadBufferMaxLen)
    /\ timer_response_buffer' =
         DequeAppend(timer_response_buffer, ritem[r], ResponseBufferMaxLen)
    /\ rpc' = [rpc EXCEPT ![r] = "stream"]
    /\ Background
    /\ NoDevCall
    /\ UNCHANGED <<pcan_available, initialized, channel, baudrate, message_counter,
                   recording, stream_file, first_message, file_exists, file,
                   reader_running, reader_thread, ritem, rch, devOpen, delivered,
                   timer_running, timer_thread, timer_logs, stop_timer_event, tpc,
                   tloc, heard, data_file_exists, data_file, saved>>

\* lines 527-531: the frame enters the read buffer and, while a timer
\* sequence runs, the response buffer
reader_loop_Push(r) ==
    /\ rpc[r] = "push"
    /\ read_buffer' = DequeAppend(read_buffer, ritem[r], ReadBufferMaxLen)
    /\ timer_response_buffer' =
         IF timer_running
         THEN DequeAppend(timer_response_buffer, ritem[r], ResponseBufferMaxLen)
         ELSE timer_response_buffer
    /\ rpc' = [rpc EXCEPT ![r] = "stream"]
    /\ Background
    /\ NoDevCall
    /\ UNCHANGED <<pcan_available, initialized, channel, baudrate, message_counter,
                   recording, stream_file, first_message, file_exists, file,
                   reader_running, reader_thread, ritem, rch, devOpen, delivered,
                   timer_running, timer_thread, timer_logs, stop_timer_event, tpc,
                   tloc, heard, data_file_exists, data_file, saved>>

\* lines 534-539: when recording, the separator before every record but the
\* first
reader_loop_Separator(r) ==
    /\ rpc[r] = "stream"
    /\ IF recording /\ stream_file # None
       THEN /\ IF first_message
               THEN /\ first_message' = FALSE
                    /\ UNCHANGED file
               ELSE /\ file' = file \o <<COMMA, NL>>
                    /\ UNCHANGED first_message
            /\ rpc' = [rpc EXCEPT ![r] = "record"]
            /\ UNCHANGED ritem
       ELSE /\ rpc' = [rpc EXCEPT ![r] = "read"]
            /\ ritem' = [ritem EXCEPT ![r] = NoItem]
            /\ UNCHANGED <<first_message, file>>
    /\ Background
    /\ NoDevCall
    /\ UNCHANGED <<pcan_available, initialized, channel, baudrate, message_counter,
                   read_buffer, recording, stream_file, file_exists, reader_running,
                   reader_thread, rch, devOpen, delivered, timer_running, timer_thread,
                   timer_logs, timer_response_buffer, stop_timer_event, tpc, tloc,
                   heard, data_file_exists, data_file, saved>>

\* lines 542-550: the record itself; a write to a file that release() has
\* closed raises, and the exception is swallowed
reader_loop_Record(r) ==
    /\ rpc[r] = "record"
    /\ file' = IF stream_file # None THEN Append(file, RecordOf(ritem[r])) ELSE file
    /\ rpc' = [rpc EXCEPT ![r] = "read"]
    /\ ritem' = [ritem EXCEPT ![r] = NoItem]
    /\ Background
    /\ NoDevCall
    /\ UNCHANGED <<pcan_available, initialized, channel, baudrate, message_counter,
                   read_buffer, recording, stream_file, first_message, file_exists,
                   reader_running, reader_thread, rch, devOpen, delivered,
                   timer_running, timer_thread, timer_logs, timer_response_buffer,
                   stop_timer_event, tpc, tloc, heard, data_file_exists, data_file,
                   saved>>

\* the steps of the reader thread r; the device delivers identifiers of ids
reader_loop(r, ids) ==
    \/ reader_loop_Check(r)
    \/ reader_loop_Channel(r)
    \/ reader_loop_ReadOk(r, ids)
    \/ reader_loop_ReadNone(r)
    \/ reader_loop_Push(r)
    \/ reader_loop_Separator(r)
    \/ reader_loop_Record(r)

(***************************************************************************)
(* read_all_messages(), lines 408-436.                                     *)
(***************************************************************************)

\* lines 413-420
read_all_messages_Call ==
    /\ fgPc = "idle"
    /\ IF ~initialized
       THEN Return("read_all_messages", FALSE, None, <<>>)
       ELSE /\ Goto("drain")
            /\ fgMsgs' = <<>>
            /\ fgSnap' = read_buffer
            /\ UNCHANGED <<fgRes, fgArg>>
    /\ NoDevCall
    /\ UNCHANGED <<pcan_available, initialized, channel, baudrate, message_counter,
                   read_buffer, recording, stream_file, first_message, file_exists,
                   file, reader_running, reader_thread, rpc, ritem, rch, devOpen,
                   delivered, timer_running, timer_thread, timer_logs,
                   timer_response_buffer, stop_timer_event, tpc, tloc, heard,
                   data_file_exists, data_file, saved>>

\* lines 421-436: one turn of the drain loop, or its end
read_all_messages_Drain ==
    /\ fgPc = "drain"
    /\ IF read_buffer # <<>>
       THEN /\ fgMsgs' = Append(fgMsgs, Head(read_buffer))
            /\ read_buffer' = Tail(read_buffer)
            /\ fgRet' = NoRet
            /\ UNCHANGED <<fgPc, fgRes, fgArg, fgSnap>>
       ELSE /\ Return("read_all_messages", TRUE, None, fgMsgs)
            /\ UNCHANGED read_buffer
    /\ NoDevCall
    /\ UNCHANGED <<pcan_available, initialized, channel, baudrate, message_counter,
                   recording, stream_file, first_message, file_exists, file,
                   reader_running, reader_thread, rpc, ritem, rch, devOpen, delivered,
                   timer_running, timer_thread, timer_logs, timer_response_buffer,
                   stop_timer_event, tpc, tloc, heard, data_file_exists, data_file,
                   saved>>

(***************************************************************************)
(* read_message(), lines 333-406.  The "counter" field the call adds to    *)
(* the returned frame is read by no operation and is left out; the counter *)
(* itself is kept.                                                         *)
(***************************************************************************)

\* lines 334-357: serve the oldest buffered frame, else go to the device
read_message_Call ==
    /\ fgPc = "idle"
    /\ IF ~initialized \/ ~pcan_available
       THEN /\ Return("read_message", FALSE, "PCAN not initialized", <<>>)
            /\ UNCHANGED <<read_buffer, message_counter>>
       ELSE IF read_buffer # <<>>
       THEN /\ read_buffer' = Tail(read_buffer)
            /\ message_counter' = message_counter + 1
            /\ Return("read_message", TRUE, None, <<Head(read_buffer)>>)
       ELSE /\ Goto("readfd")
            /\ UNCHANGED <<read_buffer, message_counter, fgMsgs, fgRes, fgArg, fgSnap>>
    /\ NoDevCall
    /\ UNCHANGED <<pcan_available, initialized, channel, baudrate, recording,
                   stream_file, first_message, file_exists, file, reader_running,
                   reader_thread, rpc, ritem, rch, devOpen, delivered, timer_running,
                   timer_thread, timer_logs, timer_response_buffer, stop_timer_event,
                   tpc, tloc, heard, data_file_exists, data_file, saved>>

\* lines 359-377 and 382-400: the device hands a frame to the caller
read_message_DeviceOk(ids) ==
    /\ fgPc \in {"readfd", "read"}
    /\ channel \in devOpen
    /\ delivered < MaxFrames
    /\ \E id \in ids :
         Return("read_message", TRUE, None, <<DeviceFrame(id)>>)
    /\ delivered' = delivered + 1
    /\ message_counter' = message_counter + 1
    /\ devEvent' = DevCall(IF fgPc = "readfd" THEN "ReadFD" ELSE "Read", channel, "fg")
    /\ UNCHANGED <<pcan_available, initialized, channel, baudrate, read_buffer,
                   recording, stream_file, first_message, file_exists, file,
                   reader_running, reader_thread, rpc, ritem, rch, devOpen,
                   timer_running, timer_thread, timer_logs, timer_response_buffer,
                   stop_timer_event, tpc, tloc, heard, data_file_exists, data_file,
                   saved>>

\* lines 378-381 and 401: no frame; after ReadFD the call tries Read
read_message_DeviceNone ==
    /\ fgPc \in {"readfd", "read"}
    /\ devEvent' = DevCall(IF fgPc = "readfd" THEN "ReadFD" ELSE "Read", channel, "fg")
    /\ IF fgPc = "readfd"
       THEN /\ Goto("read")
            /\ UNCHANGED <<fgMsgs, fgRes, fgArg, fgSnap>>
       ELSE Return("read_message", TRUE, None, <<>>)
    /\ UNCHANGED <<pcan_available, initialized, channel, baudrate, message_counter,
                   read_buffer, recording, stream_file, first_message, file_exists,
                   file, reader_running, reader_thread, rpc, ritem, rch, devOpen,
                   delivered, timer_running, timer_thread, timer_logs,
                   timer_response_buffer, stop_timer_event, tpc, tloc, heard,
                   data_file_exists, data_file, saved>>

(***************************************************************************)
(* write_message(msg_id, data, extended, rtr), lines 438-493.  The timer   *)
(* thread passes hex(can_id) as msg_id.                                    *)
(***************************************************************************)
\* a frame type that is extended from 0x7FF on
is_extended_FromStdIdMax(msg_id, extended) == extended \/ ParseHex(msg_id) >= StdIdMax

\* lines 447-448: int(msg_id, 16) and the frame type
is_extended(msg_id, extended) == extended \/ ParseHex(msg_id) > StdIdMax

\* lines 451-471: the frame handed to pcan.Write
WriteCall(msg_id, data, extended, by) ==
    [op |-> "Write", ch |-> channel, by |-> by, id |-> ParseHex(msg_id),
     ext |-> is_extended(msg_id, extended),
     data |-> SubSeq(data, 1, IF Len(data) < 8 THEN Len(data) ELSE 8),
     req |-> extended, status |-> None]

\* the statuses pcan.Write can return: OK only on an initialized channel
WriteResults == IF channel \in devOpen THEN {"OK", "ERROR"} ELSE {"ERROR"}

\* a write that reports success whatever the device said
WriteSucceeded_Always(result) == TRUE

\* line 473: result == PCAN_ERROR_OK
WriteSucceeded(result) == result = "OK"

(***************************************************************************)
(* The sequencer's log.  An entry is {type, message, timestamp}; the       *)
(* message is kept as its parts (tag, id, data, expected, recv), the       *)
(* timestamp is left out, and `by` names the thread that appended it.      *)
(***************************************************************************)
Entry(type, tag, by) ==
    [type |-> type, tag |-> tag, id |-> 0, data |-> <<>>, expected |-> 0,
     recv |-> 0, by |-> by]

\* an append to a log without a capacity
AppendLog_Unbounded(entry) == timer_logs' = Append(timer_logs, entry)

\* timer_logs.append(entry), on deque(maxlen=1000)
AppendLog(entry) == timer_logs' = DequeAppend(timer_logs, entry, TimerLogsMaxLen)

(***************************************************************************)
(* start_timer_sequence(mode, data, default_interval, base_id),            *)
(* lines 582-613.                                                          *)
(***************************************************************************)
FreeTimer == {t \in TimerIds : tpc[t] = "unborn"}

\* the timer threads that have been started and have not ended
AliveTimers == {t \in TimerIds : tpc[t] \notin {"unborn", "dead"}}

\* a start that is never rejected
AlreadyRunning_Never == FALSE

\* line 590: the check that rejects a start
AlreadyRunning == timer_running

\* a start that accepts a script without commands
NoCommands_Never(commands) == FALSE

\* line 595: if not commands
NoCommands(commands) == commands = <<>>

\* lines 590-598: the running check, the parse, and the running flag
start_timer_sequence_Call(script, default_interval, base_id) ==
    /\ fgPc = "idle"
    /\ IF AlreadyRunning
       THEN /\ Return("start_timer_sequence", FALSE, "Timer sequence already running",
                      <<>>)
            /\ UNCHANGED timer_running
       ELSE IF NoCommands(parse_commands(script, default_interval))
       THEN /\ Return("start_timer_sequence", FALSE,
                      "No valid commands found in input", <<>>)
            /\ UNCHANGED timer_running
       ELSE /\ FreeTimer # {}
            /\ timer_running' = TRUE
            /\ fgMsgs' = parse_commands(script, default_interval)
            /\ fgArg' = base_id
            /\ Goto("start_event")
            /\ UNCHANGED <<fgRes, fgSnap>>
    /\ NoDevCall
    /\ UNCHANGED <<pcan_available, initialized, channel, baudrate, message_counter,
                   read_buffer, recording, stream_file, first_message, file_exists,
                   file, reader_running, reader_thread, rpc, ritem, rch, devOpen,
                   delivered, timer_thread, timer_logs, timer_response_buffer,
                   stop_timer_event, tpc, tloc, heard, data_file_exists, data_file,
                   saved>>

\* line 599
start_timer_sequence_ClearEvent ==
    /\ fgPc = "start_event"
    /\ stop_timer_event' = FALSE
    /\ Goto("start_logs")
    /\ NoDevCall
    /\ UNCHANGED <<pcan_available, initialized, channel, baudrate, message_counter,
                   read_buffer, recording, stream_file, first_message, file_exists,
                   file, reader_running, reader_thread, rpc, ritem, rch, devOpen,
                   delivered, fgMsgs, fgRes, fgArg, fgSnap, timer_running,
                   timer_thread, timer_logs, timer_response_buffer, tpc, tloc, heard,
                   data_file_exists, data_file, saved>>

\* line 600
start_timer_sequence_ClearLogs ==
    /\ fgPc = "start_logs"
    /\ timer_logs' = <<>>
    /\ Goto("start_buffer")
    /\ NoDevCall
    /\ UNCHANGED <<pcan_available, initialized, channel, baudrate, message_counter,
                   read_buffer, recording, stream_file, first_message, file_exists,
                   file, reader_running, reader_thread, rpc, ritem, rch, devOpen,
                   delivered, fgMsgs, fgRes, fgArg, fgSnap, timer_running,
                   timer_thread, timer_response_buffer, stop_timer_event, tpc, tloc,
                   heard, data_file_exists, data_file, saved>>

\* line 601
start_timer_sequence_ClearBuffer ==
    /\ fgPc = "start_buffer"
    /\ timer_response_buffer' = <<>>
    /\ Goto("start_thread")
    /\ NoDevCall
    /\ UNCHANGED <<pcan_available, initialized, channel, baudrate, message_counter,
                   read_buffer, recording, stream_file, first_message, file_exists,
                   file, reader_running, reader_thread, rpc, ritem, rch, devOpen,
                   delivered, fgMsgs, fgRes, fgArg, fgSnap, timer_running,
                   timer_thread, timer_logs, stop_timer_event, tpc, tloc, heard,
                   data_file_exists, data_file, saved>>

\* lines 603-610: the execution thread is created and started
start_timer_sequence_Thread ==
    /\ fgPc = "start_thread"
    /\ LET t == CHOOSE x \in FreeTimer : \A y \in FreeTimer : x <= y
       IN /\ timer_thread' = t
          /\ tpc' = [tpc EXCEPT ![t] = "begin"]
          /\ tloc' = [tloc EXCEPT ![t] =
                        [NoLocals EXCEPT !.commands = fgMsgs, !.base_id = fgArg]]
    /\ Return("start_timer_sequence", TRUE, None, <<>>)
    /\ NoDevCall
    /\ UNCHANGED <<pcan_available, initialized, channel, baudrate, message_counter,
                   read_buffer, recording, stream_file, first_message, file_exists,
                   file, reader_running, reader_thread, rpc, ritem, rch, devOpen,
                   delivered, timer_running, timer_logs, timer_response_buffer,
                   stop_timer_event, heard, data_file_exists, data_file, saved>>

(***************************************************************************)
(* stop_timer_sequence(), lines 615-624.                                   *)
(***************************************************************************)
\* a stop that is never rejected
NotRunning_Never == FALSE

\* line 616: the check that rejects a stop
NotRunning == ~timer_running

\* lines 616-619: the running check and the cancellation signal
stop_timer_sequence_Call ==
    /\ fgPc = "idle"
    /\ IF NotRunning
       THEN /\ Return("stop_timer_sequence", FALSE, "Timer sequence not running", <<>>)
            /\ UNCHANGED <<stop_timer_event, tloc>>
       ELSE /\ stop_timer_event' = TRUE
            /\ tloc' = IF timer_thread \in AliveTimers
                       THEN [tloc EXCEPT ![timer_thread].stopped = TRUE]
                       ELSE tloc
            /\ Goto("stop_join")
            /\ UNCHANGED <<fgMsgs, fgRes, fgArg, fgSnap>>
    /\ NoDevCall
    /\ UNCHANGED <<pcan_available, initialized, channel, baudrate, message_counter,
                   read_buffer, recording, stream_file, first_message, file_exists,
                   file, reader_running, reader_thread, rpc, ritem, rch, devOpen,
                   delivered, timer_running, timer_thread, timer_logs,
                   timer_response_buffer, tpc, heard, data_file_exists, data_file,
                   saved>>

\* timer_thread.join(timeout=2.0) has come back: the thread has ended, or
\* the timeout has passed
JoinedTimer(timeout) ==
    \/ timer_thread = 0
    \/ tpc[timer_thread] = "dead"
    \/ timeout

\* lines 620-621: the bounded join
stop_timer_sequence_Join ==
    /\ fgPc = "stop_join"
    /\ \E timeout \in BOOLEAN : JoinedTimer(timeout)
    /\ Goto("stop_flag")
    /\ NoDevCall
    /\ UNCHANGED <<pcan_available, initialized, channel, baudrate, message_counter,
                   read_buffer, recording, stream_file, first_message, file_exists,
                   file, reader_running, reader_thread, rpc, ritem, rch, devOpen,
                   delivered, fgMsgs, fgRes, fgArg, fgSnap, timer_running,
                   timer_thread, timer_logs, timer_response_buffer, stop_timer_event,
                   tpc, tloc, heard, data_file_exists, data_file, saved>>

\* a stop that marks the sequencer idle only when the thread has ended
stop_timer_sequence_Flag_IfJoined ==
    /\ fgPc = "stop_flag"
    /\ timer_running' = (timer_thread \in AliveTimers)
    /\ Return("stop_timer_sequence", TRUE, None, <<>>)
    /\ NoDevCall
    /\ UNCHANGED <<pcan_available, initialized, channel, baudrate, message_counter,
                   read_buffer, recording, stream_file, first_message, file_exists,
                   file, reader_running, reader_thread, rpc, ritem, rch, devOpen,
                   delivered, timer_thread, timer_logs, timer_response_buffer,
                   stop_timer_event, tpc, tloc, heard, data_file_exists, data_file,
                   saved>>

\* lines 623-624
stop_timer_sequence_Flag ==
    /\ fgPc = "stop_flag"
    /\ timer_running' = FALSE
    /\ Return("stop_timer_sequence", TRUE, None, <<>>)
    /\ NoDevCall
    /\ UNCHANGED <<pcan_available, initialized, channel, baudrate, message_counter,
                   read_buffer, recording, stream_file, first_message, file_exists,
                   file, reader_running, reader_thread, rpc, ritem, rch, devOpen,
                   delivered, timer_thread, timer_logs, timer_response_buffer,
                   stop_timer_event, tpc, tloc, heard, data_file_exists, data_file,
                   saved>>

(***************************************************************************)
(* get_timer_logs(), lines 626-630.                                        *)
(***************************************************************************)

get_timer_logs_Call ==
    /\ fgPc = "idle"
    /\ fgPc' = "idle"
    /\ fgRet' = [op |-> "get_timer_logs", success |-> TRUE, error |-> None,
                 messages |-> timer_logs, running |-> timer_running]
    /\ UNCHANGED <<fgMsgs, fgRes, fgArg, fgSnap>>
    /\ NoDevCall
    /\ UNCHANGED <<pcan_available, initialized, channel, baudrate, message_counter,
                   read_buffer, recording, stream_file, first_message, file_exists,
                   file, reader_running, reader_thread, rpc, ritem, rch, devOpen,
                   delivered, timer_running, timer_thread, timer_logs,
                   timer_response_buffer, stop_timer_event, tpc, tloc, heard,
                   data_file_exists, data_file, saved>>

(***************************************************************************)
(* write_message called by the request layer (routers/pcan.py, write_pcan).*)
(***************************************************************************)

\* lines 439-493 in one step: no other foreground call runs meanwhile, and
\* the threads do not write initialized or channel
write_message_Call(msg_id, data, extended) ==
    /\ fgPc = "idle"
    /\ IF ~initialized
       THEN /\ Return("write_message", FALSE, "PCAN not initialized", <<>>)
            /\ NoDevCall
       ELSE \E result \in WriteResults :
            /\ devEvent' = [WriteCall(msg_id, data, extended, "fg") EXCEPT !.status = result]
            /\ IF WriteSucceeded(result)
               THEN Return("write_message", TRUE, None, <<>>)
               ELSE Return("write_message", FALSE, "Failed to send message", <<>>)
    /\ UNCHANGED <<pcan_available, initialized, channel, baudrate, message_counter,
                   read_buffer, recording, stream_file, first_message, file_exists,
                   file, reader_running, reader_thread, rpc, ritem, rch, devOpen,
                   delivered, timer_running, timer_thread, timer_logs,
                   timer_response_buffer, stop_timer_event, tpc, tloc, heard,
                   data_file_exists, data_file, saved>>

(***************************************************************************)
(* _timer_write_loop(commands, base_id), lines 717-880, one instance per   *)
(* started thread t.  tloc[t] holds its local variables: ci and ri are the *)
(* positions of the two for loops, can_id and interval_ms are -1 while     *)
(* unassigned, received is all_received_msgs, out the summary entries not  *)
(* yet appended.  attempts, cancelled, stopped, errored and tried are      *)
(* history: the sent and error entries the thread has appended, whether it *)
(* has seen the stop event set, whether stop_timer_sequence was called     *)
(* during its run, whether its except clause was entered, and the          *)
(* identifier of the command of its latest write_message call (-1 before   *)
(* the first).                                                             *)
(* recv_stats is written and never read, and is left out.                  *)
(***************************************************************************)
Cmd(t) == tloc[t].commands[tloc[t].ci]

\* accepted identifiers shifted down by one
allowed_response_ids_Shifted(base_id) == {base_id + 128, base_id + 129}

\* lines 727-729
allowed_response_ids(base_id) == {base_id + RespOffset1, base_id + RespOffset2}

\* where the thread goes when the loop over repeats is left by a break:
\* the next command, or the post-sequence window
AfterCommand(t) == IF tloc[t].ci < Len(tloc[t].commands) THEN "cmd" ELSE "pwait"

\* lines 777-789 and 811-822: a drained frame is collected when its
\* identifier is an accepted one
Collect(L, msg) ==
    IF ParseHex(msg.id) \in allowed_response_ids(L.base_id)
    THEN [L EXCEPT !.received = Append(@,
             [sent_id |-> IF L.can_id = -1 THEN <<-1>> ELSE HexDigits(L.can_id),
              response_id |-> HexDigits(ParseHex(msg.id)),
              data |-> HexData(msg.data)])]
    ELSE L

\* lines 838-870: the entries appended after "Sequence Finished"
SummaryEntries(L, t) ==
    IF L.received # <<>>
    THEN << Entry("info", "Listened Data", t),
            [Entry("info", "Summary", t) EXCEPT
               !.expected = TotalRepeat(L.commands), !.recv = Len(L.received)] >>
         \o [i \in 1..Len(L.received) |->
               [Entry("recv", "Recv", t) EXCEPT
                  !.id = ParseHex(L.received[i].response_id),
                  !.data = L.received[i].data]]
    ELSE << Entry("info", "No matching responses received.", t),
            [Entry("info", "Summary", t) EXCEPT
               !.expected = TotalRepeat(L.commands), !.recv = 0] >>

\* lines 718-722
timer_write_loop_Begin(t) ==
    /\ tpc[t] = "begin"
    /\ AppendLog(Entry("info", "Starting Sequence...", t))
    /\ tloc' = [tloc EXCEPT ![t].ci = 1]
    /\ tpc' = [tpc EXCEPT ![t] = "cmd"]
    /\ Background
    /\ NoDevCall
    /\ UNCHANGED <<pcan_available, initialized, channel, baudrate, message_counter,
                   read_buffer, recording, stream_file, first_message, file_exists,
                   file, reader_running, reader_thread, rpc, ritem, rch, devOpen,
                   delivered, timer_running, timer_thread, timer_response_buffer,
                   stop_timer_event, heard, data_file_exists, data_file, saved>>

\* lines 735-741: the head of the loop over commands
timer_write_loop_Command(t) ==
    /\ tpc[t] = "cmd"
    /\ IF stop_timer_event
       THEN /\ tloc' = [tloc EXCEPT ![t].cancelled = TRUE]
            /\ tpc' = [tpc EXCEPT ![t] = "pwait"]
       ELSE /\ tloc' = [tloc EXCEPT ![t].can_id = Cmd(t).id,
                                    ![t].interval_ms = Cmd(t).interval,
                                    ![t].ri = 0]
            /\ tpc' = [tpc EXCEPT ![t] = "rep"]
    /\ Background
    /\ NoDevCall
    /\ UNCHANGED <<pcan_available, initialized, channel, baudrate, message_counter,
                   read_buffer, recording, stream_file, first_message, file_exists,
                   file, reader_running, reader_thread, rpc, ritem, rch, devOpen,
                   delivered, timer_running, timer_thread, timer_logs,
                   timer_response_buffer, stop_timer_event, heard, data_file_exists,
                   data_file, saved>>

\* lines 743-744: the head of the loop over repeats; a break leaves this
\* loop only, and the loop over commands goes on
timer_write_loop_Repeat(t) ==
    /\ tpc[t] = "rep"
    /\ IF stop_timer_event
       THEN /\ tloc' = [tloc EXCEPT ![t].cancelled = TRUE,
                                    ![t].ci = IF AfterCommand(t) = "cmd" THEN @ + 1 ELSE @]
            /\ tpc' = [tpc EXCEPT ![t] = AfterCommand(t)]
       ELSE /\ tpc' = [tpc EXCEPT ![t] = "wcheck"]
            /\ UNCHANGED tloc
    /\ Background
    /\ NoDevCall
    /\ UNCHANGED <<pcan_available, initialized, channel, baudrate, message_counter,
                   read_buffer, recording, stream_file, first_message, file_exists,
                   file, reader_running, reader_thread, rpc, ritem, rch, devOpen,
                   delivered, timer_running, timer_thread, timer_logs,
                   timer_response_buffer, stop_timer_event, heard, data_file_exists,
                   data_file, saved>>

\* line 747 into lines 439-443 of write_message: the connected check
timer_write_loop_WriteCheck(t) ==
    /\ tpc[t] = "wcheck"
    /\ IF ~initialized
       THEN /\ tloc' = [tloc EXCEPT ![t].res = "PCAN not initialized"]
            /\ tpc' = [tpc EXCEPT ![t] = "logsend"]
       ELSE /\ tpc' = [tpc EXCEPT ![t] = "wdev"]
            /\ UNCHANGED tloc
    /\ Background
    /\ NoDevCall
    /\ UNCHANGED <<pcan_available, initialized, channel, baudrate, message_counter,
                   read_buffer, recording, stream_file, first_message, file_exists,
                   file, reader_running, reader_thread, rpc, ritem, rch, devOpen,
                   delivered, timer_running, timer_thread, timer_logs,
                   timer_response_buffer, stop_timer_event, heard, data_file_exists,
                   data_file, saved>>

\* lines 445-493 of write_message: the frame is built and written; without
\* a channel the handle lookup raises and the call returns a failure
timer_write_loop_WriteDevice(t) ==
    /\ tpc[t] = "wdev"
    /\ IF channel = None
       THEN /\ tloc' = [tloc EXCEPT ![t].res = "Error writing message"]
            /\ NoDevCall
       ELSE \E result \in WriteResults :
            /\ devEvent' = [WriteCall(HexDigits(Cmd(t).id), Cmd(t).data, FALSE, t)
                               EXCEPT !.status = result]
            /\ tloc' = [tloc EXCEPT ![t].res =
                          IF WriteSucceeded(result) THEN "OK" ELSE "Failed to send message"]
    /\ tpc' = [tpc EXCEPT ![t] = "logsend"]
    /\ Background
    /\ UNCHANGED <<pcan_available, initialized, channel, baudrate, message_counter,
                   read_buffer, recording, stream_file, first_message, file_exists,
                   file, reader_running, reader_thread, rpc, ritem, rch, devOpen,
                   delivered, timer_running, timer_thread, timer_logs,
                   timer_response_buffer, stop_timer_event, heard, data_file_exists,
                   data_file, saved>>

\* lines 750-762: one log entry for the attempt
timer_write_loop_LogSend(t) ==
    /\ tpc[t] = "logsend"
    /\ LET e == IF tloc[t].res = "OK"
                THEN [Entry("sent", "Sent", t) EXCEPT
                        !.id = tloc[t].can_id, !.data = HexData(Cmd(t).data)]
                ELSE Entry("error", "Failed Sent", t)
       IN /\ AppendLog(e)
          /\ tloc' = [tloc EXCEPT ![t].attempts = Append(@, e), ![t].res = None,
                                   ![t].tried = Cmd(t).id]
    /\ tpc' = [tpc EXCEPT ![t] = "wait"]
    /\ Background
    /\ NoDevCall
    /\ UNCHANGED <<pcan_available, initialized, channel, baudrate, message_counter,
                   read_buffer, recording, stream_file, first_message, file_exists,
                   file, reader_running, reader_thread, rpc, ritem, rch, devOpen,
                   delivered, timer_running, timer_thread, timer_response_buffer,
                   stop_timer_event, heard, data_file_exists, data_file, saved>>

\* the locals after the wait of a repeat is over: the next repeat, the next
\* command, or the end of the loop over commands
NextRepeat(L) ==
    IF L.ri + 1 < L.commands[L.ci].repeat THEN [L EXCEPT !.ri = @ + 1]
    ELSE IF L.ci < Len(L.commands) THEN [L EXCEPT !.ci = @ + 1]
    ELSE L

NextRepeatPc(L) ==
    IF L.ri + 1 < L.commands[L.ci].repeat THEN "rep"
    ELSE IF L.ci < Len(L.commands) THEN "cmd"
    ELSE "pwait"

\* line 768: the interval has passed (at once when it is not positive)
timer_write_loop_WaitOver(t) ==
    /\ tpc[t] = "wait"
    /\ tloc' = [tloc EXCEPT ![t] = NextRepeat(@)]
    /\ tpc' = [tpc EXCEPT ![t] = NextRepeatPc(tloc[t])]
    /\ Background
    /\ NoDevCall
    /\ UNCHANGED <<pcan_available, initialized, channel, baudrate, message_counter,
                   read_buffer, recording, stream_file, first_message, file_exists,
                   file, reader_running, reader_thread, rpc, ritem, rch, devOpen,
                   delivered, timer_running, timer_thread, timer_logs,
                   timer_response_buffer, stop_timer_event, heard, data_file_exists,
                   data_file, saved>>

\* lines 768-769: the interval has not passed; the stop event is polled
timer_write_loop_WaitTick(t) ==
    /\ tpc[t] = "wait"
    /\ tloc[t].interval_ms > 0
    /\ IF stop_timer_event
       THEN /\ tloc' = [tloc EXCEPT ![t] = [NextRepeat(@) EXCEPT !.cancelled = TRUE]]
            /\ tpc' = [tpc EXCEPT ![t] = NextRepeatPc(tloc[t])]
       ELSE /\ tpc' = [tpc EXCEPT ![t] = "drain"]
            /\ UNCHANGED tloc
    /\ Background
    /\ NoDevCall
    /\ UNCHANGED <<pcan_available, initialized, channel, baudrate, message_counter,
                   read_buffer, recording, stream_file, first_message, file_exists,
                   file, reader_running, reader_thread, rpc, ritem, rch, devOpen,
                   delivered, timer_running, timer_thread, timer_logs,
                   timer_response_buffer, stop_timer_event, heard, data_file_exists,
                   data_file, saved>>

\* line 773: the response buffer's length; when empty, time.sleep(0.01)
timer_write_loop_Drain(t) ==
    /\ tpc[t] = "drain"
    /\ tpc' = [tpc EXCEPT ![t] = IF Len(timer_response_buffer) > 0 THEN "pop" ELSE "wait"]
    /\ Background
    /\ NoDevCall
    /\ UNCHANGED <<pcan_available, initialized, channel, baudrate, message_counter,
                   read_buffer, recording, stream_file, first_message, file_exists,
                   file, reader_running, reader_thread, rpc, ritem, rch, devOpen,
                   delivered, timer_running, timer_thread, timer_logs,
                   timer_response_buffer, stop_timer_event, tloc, heard,
                   data_file_exists, data_file, saved>>

\* lines 774-791: popleft (it raises on an empty deque) and the identifier
timer_write_loop_Pop(t) ==
    /\ tpc[t] = "pop"
    /\ IF timer_response_buffer = <<>>
       THEN /\ tpc' = [tpc EXCEPT ![t] = "error"]
            /\ UNCHANGED <<timer_response_buffer, tloc>>
       ELSE /\ timer_response_buffer' = Tail(timer_response_buffer)
            /\ tloc' = [tloc EXCEPT ![t] = Collect(@, Head(timer_response_buffer))]
            /\ tpc' = [tpc EXCEPT ![t] = "drain"]
    /\ Background
    /\ NoDevCall
    /\ UNCHANGED <<pcan_available, initialized, channel, baudrate, message_counter,
                   read_buffer, recording, stream_file, first_message, file_exists,
                   file, reader_running, reader_thread, rpc, ritem, rch, devOpen,
                   delivered, timer_running, timer_thread, timer_logs,
                   stop_timer_event, heard, data_file_exists, data_file, saved>>

\* line 800: locals().get('interval_ms', 1000)
last_interval_ms(L) == IF L.interval_ms = -1 THEN DefaultPostInterval ELSE L.interval_ms

\* line 805: the post-sequence window has passed
timer_write_loop_PostOver(t) ==
    /\ tpc[t] = "pwait"
    /\ tpc' = [tpc EXCEPT ![t] = "finlog"]
    /\ Background
    /\ NoDevCall
    /\ UNCHANGED <<pcan_available, initialized, channel, baudrate, message_counter,
                   read_buffer, recording, stream_file, first_message, file_exists,
                   file, reader_running, reader_thread, rpc, ritem, rch, devOpen,
                   delivered, timer_running, timer_thread, timer_logs,
                   timer_response_buffer, stop_timer_event, tloc, heard,
                   data_file_exists, data_file, saved>>

\* lines 805-806: the window has not passed; the stop event is polled
timer_write_loop_PostTick(t) ==
    /\ tpc[t] = "pwait"
    /\ last_interval_ms(tloc[t]) > 0
    /\ IF stop_timer_event
       THEN /\ tloc' = [tloc EXCEPT ![t].cancelled = TRUE]
            /\ tpc' = [tpc EXCEPT ![t] = "finlog"]
       ELSE /\ tpc' = [tpc EXCEPT ![t] = "pdrain"]
            /\ UNCHANGED tloc
    /\ Background
    /\ NoDevCall
    /\ UNCHANGED <<pcan_available, initialized, channel, baudrate, message_counter,
                   read_buffer, recording, stream_file, first_message, file_exists,
                   file, reader_running, reader_thread, rpc, ritem, rch, devOpen,
                   delivered, timer_running, timer_thread, timer_logs,
                   timer_response_buffer, stop_timer_event, heard, data_file_exists,
                   data_file, saved>>

\* line 808
timer_write_loop_PostDrain(t) ==
    /\ tpc[t] = "pdrain"
    /\ tpc' = [tpc EXCEPT ![t] = IF Len(timer_response_buffer) > 0 THEN "ppop" ELSE "pwait"]
    /\ Background
    /\ NoDevCall
    /\ UNCHANGED <<pcan_available, initialized, channel, baudrate, message_counter,
                   read_buffer, recording, stream_file, first_message, file_exists,
                   file, reader_running, reader_thread, rpc, ritem, rch, devOpen,
                   delivered, timer_running, timer_thread, timer_logs,
                   timer_response_buffer, stop_timer_event, tloc, heard,
                   data_file_exists, data_file, saved>>

\* lines 809-824
timer_write_loop_PostPop(t) ==
    /\ tpc[t] = "ppop"
    /\ IF timer_response_buffer = <<>>
       THEN /\ tpc' = [tpc EXCEPT ![t] = "error"]
            /\ UNCHANGED <<timer_response_buffer, tloc>>
       ELSE /\ timer_response_buffer' = Tail(timer_response_buffer)
            /\ tloc' = [tloc EXCEPT ![t] = Collect(@, Head(timer_response_buffer))]
            /\ tpc' = [tpc EXCEPT ![t] = "pdrain"]
    /\ Background
    /\ NoDevCall
    /\ UNCHANGED <<pcan_available, initialized, channel, baudrate, message_counter,
                   read_buffer, recording, stream_file, first_message, file_exists,
                   file, reader_running, reader_thread, rpc, ritem, rch, devOpen,
                   delivered, timer_running, timer_thread, timer_logs,
                   stop_timer_event, heard, data_file_exists, data_file, saved>>

\* lines 827-831
timer_write_loop_Finished(t) ==
    /\ tpc[t] = "finlog"
    /\ AppendLog(Entry("info", "Sequence Finished", t))
    /\ tpc' = [tpc EXCEPT ![t] = "summary"]
    /\ Background
    /\ NoDevCall
    /\ UNCHANGED <<pcan_available, initialized, channel, baudrate, message_counter,
                   read_buffer, recording, stream_file, first_message, file_exists,
                   file, reader_running, reader_thread, rpc, ritem, rch, devOpen,
                   delivered, timer_running, timer_thread, timer_response_buffer,
                   stop_timer_event, tloc, heard, data_file_exists, data_file, saved>>

\* lines 834-839: timer_logs[0] is read (it raises on an empty log) and the
\* summary is computed
timer_write_loop_Summary(t) ==
    /\ tpc[t] = "summary"
    /\ IF timer_logs = <<>>
       THEN /\ tpc' = [tpc EXCEPT ![t] = "error"]
            /\ UNCHANGED tloc
       ELSE /\ tpc' = [tpc EXCEPT ![t] = "emit"]
            /\ tloc' = [tloc EXCEPT ![t].out = SummaryEntries(tloc[t], t)]
    /\ Background
    /\ NoDevCall
    /\ UNCHANGED <<pcan_available, initialized, channel, baudrate, message_counter,
                   read_buffer, recording, stream_file, first_message, file_exists,
                   file, reader_running, reader_thread, rpc, ritem, rch, devOpen,
                   delivered, timer_running, timer_thread, timer_logs,
                   timer_response_buffer, stop_timer_event, heard, data_file_exists,
                   data_file, saved>>

\* lines 841-870: the summary entries, one append each
timer_write_loop_Emit(t) ==
    /\ tpc[t] = "emit"
    /\ AppendLog(Head(tloc[t].out))
    /\ tloc' = [tloc EXCEPT ![t].out = Tail(@)]
    /\ tpc' = [tpc EXCEPT ![t] = IF Len(tloc[t].out) = 1 THEN "fin" ELSE "emit"]
    /\ Background
    /\ NoDevCall
    /\ UNCHANGED <<pcan_available, initialized, channel, baudrate, message_counter,
                   read_buffer, recording, stream_file, first_message, file_exists,
                   file, reader_running, reader_thread, rpc, ritem, rch, devOpen,
                   delivered, timer_running, timer_thread, timer_response_buffer,
                   stop_timer_event, heard, data_file_exists, data_file, saved>>

\* lines 873-878: an exception of the loop is logged
timer_write_loop_Error(t) ==
    /\ tpc[t] = "error"
    /\ AppendLog(Entry("error", "Sequence Error", t))
    /\ tpc' = [tpc EXCEPT ![t] = "fin"]
    /\ tloc' = [tloc EXCEPT ![t].errored = TRUE]
    /\ Background
    /\ NoDevCall
    /\ UNCHANGED <<pcan_available, initialized, channel, baudrate, message_counter,
                   read_buffer, recording, stream_file, first_message, file_exists,
                   file, reader_running, reader_thread, rpc, ritem, rch, devOpen,
                   delivered, timer_running, timer_thread, timer_response_buffer,
                   stop_timer_event, heard, data_file_exists, data_file, saved>>

\* a thread that ends without clearing the running flag
timer_write_loop_Finally_KeepsFlag(t) ==
    /\ tpc[t] = "fin"
    /\ UNCHANGED timer_running
    /\ tpc' = [tpc EXCEPT ![t] = "dead"]
    /\ tloc' = [tloc EXCEPT ![t] = NoLocals]
    /\ Background
    /\ NoDevCall
    /\ UNCHANGED <<pcan_available, initialized, channel, baudrate, message_counter,
                   read_buffer, recording, stream_file, first_message, file_exists,
                   file, reader_running, reader_thread, rpc, ritem, rch, devOpen,
                   delivered, timer_thread, timer_logs, timer_response_buffer,
                   stop_timer_event, heard, data_file_exists, data_file, saved>>

\* lines 879-880: the finally clause, and the thread ends
timer_write_loop_Finally(t) ==
    /\ tpc[t] = "fin"
    /\ timer_running' = FALSE
    /\ tpc' = [tpc EXCEPT ![t] = "dead"]
    /\ tloc' = [tloc EXCEPT ![t] = NoLocals]
    /\ Background
    /\ NoDevCall
    /\ UNCHANGED <<pcan_available, initialized, channel, baudrate, message_counter,
                   read_buffer, recording, stream_file, first_message, file_exists,
                   file, reader_running, reader_thread, rpc, ritem, rch, devOpen,
                   delivered, timer_thread, timer_logs, timer_response_buffer,
                   stop_timer_event, heard, data_file_exists, data_file, saved>>

\* the steps of the timer thread t that need neither a connected bridge, nor
\* a filled response buffer, nor a log cleared under the thread
timer_write_loop_Plain(t) ==
    \/ timer_write_loop_Begin(t)
    \/ timer_write_loop_Command(t)
    \/ timer_write_loop_Repeat(t)
    \/ timer_write_loop_WriteCheck(t)
    \/ timer_write_loop_LogSend(t)
    \/ timer_write_loop_WaitOver(t)
    \/ timer_write_loop_WaitTick(t)
    \/ timer_write_loop_Drain(t)
    \/ timer_write_loop_PostOver(t)
    \/ timer_write_loop_PostTick(t)
    \/ timer_write_loop_PostDrain(t)
    \/ timer_write_loop_Finished(t)
    \/ timer_write_loop_Summary(t)
    \/ timer_write_loop_Emit(t)
    \/ timer_write_loop_Finally(t)

\* the steps other than the device write (reached on a connected bridge) and
\* the pops (reached on a filled response buffer)
timer_write_loop_Idle(t) ==
    \/ timer_write_loop_Plain(t)
    \/ timer_write_loop_Error(t)

\* the steps of a timer thread whose log no other run clears: timer_logs[0]
\* at line 835 then exists, and the except clause is not entered
timer_write_loop_Alone(t) ==
    \/ timer_write_loop_Plain(t)
    \/ timer_write_loop_WriteDevice(t)
    \/ timer_write_loop_Pop(t)
    \/ timer_write_loop_PostPop(t)

\* the steps of the timer thread t
timer_write_loop(t) ==
    \/ timer_write_loop_Idle(t)
    \/ timer_write_loop_WriteDevice(t)
    \/ timer_write_loop_Pop(t)
    \/ timer_write_loop_PostPop(t)

(***************************************************************************)
(* save_data(request), routers/pcan.py lines 93-208.  The file is a token  *)
(* sequence: LB, RB and COMMA are the one-byte texts '[', ']' and ',', NL  *)
(* is one byte of whitespace, EOBJ the byte '}', SOBJ the text             *)
(* `{ "savedAt": "...", "messages":` and MsgText(m) the text json.dumps    *)
(* gives for the message m; the last byte of SOBJ and of a message text is *)
(* neither whitespace nor a bracket.                                       *)
(***************************************************************************)
MsgText(m) == [tok |-> "MSG", id |-> <<>>, data |-> <<m>>]

\* the message lists of a request
SaveBatches == UNION {[1..n -> {1, 2}] : n \in 0..MaxBatch}

\* lines 140-173: from position pos backwards over at most n bytes, the
\* position of the first ']' when only whitespace lies behind it, else 0
RECURSIVE LastBracket(_, _, _)
LastBracket(f, pos, n) ==
    IF n = 0 \/ pos = 0 THEN 0
    ELSE IF f[pos] = RB THEN pos
    ELSE IF f[pos] = NL THEN LastBracket(f, pos - 1, n - 1)
    ELSE 0

\* lines 147-159: from the ']' at pos backwards over at most n bytes, whether
\* '[' is met with only whitespace between
RECURSIVE IsEmptyBefore(_, _, _)
IsEmptyBefore(f, pos, n) ==
    IF n = 0 \/ pos - 1 < 1 THEN FALSE
    ELSE IF f[pos - 1] = LB THEN TRUE
    ELSE IF f[pos - 1] = NL THEN IsEmptyBefore(f, pos - 1, n - 1)
    ELSE FALSE

\* a scan that takes every array for an empty one
TruncateAndSeparate_NoComma(f) ==
    LET p == LastBracket(f, Len(f), SearchLimit)
    IN IF p = 0 THEN f ELSE SubSeq(f, 1, p - 1) \o <<NL>>

\* lines 130-177: the closing bracket is cut off and ',\n' written in its
\* place, or '\n' when the array is empty
TruncateAndSeparate(f) ==
    LET p == LastBracket(f, Len(f), SearchLimit)
    IN IF p = 0 THEN f
       ELSE SubSeq(f, 1, p - 1)
            \o (IF IsEmptyBefore(f, p, SearchBackLimit) THEN <<NL>> ELSE <<COMMA, NL>>)

\* lines 188-193: the message items, ',\n' after each but the last
RECURSIVE SaveItems(_)
SaveItems(msgs) ==
    IF msgs = <<>> THEN <<>>
    ELSE <<NL, MsgText(Head(msgs))>>
         \o (IF Len(msgs) > 1 THEN <<COMMA, NL>> ELSE <<NL>>)
         \o SaveItems(Tail(msgs))

\* lines 94-208 in one step: the handler does not await
save_data_Call(new_messages) ==
    /\ fgPc = "idle"
    /\ Len(saved) < MaxSaves
    /\ LET start_new == ~(data_file_exists /\ data_file # <<>> /\ data_file[1] = LB)
           base == IF start_new THEN <<LB, NL>> ELSE TruncateAndSeparate(data_file)
       IN data_file' = base \o <<NL, Tok("SOBJ"), NL, LB, NL>> \o SaveItems(new_messages)
                       \o <<NL, RB, NL, Tok("EOBJ"), NL, RB>>
    /\ data_file_exists' = TRUE
    /\ saved' = Append(saved, new_messages)
    /\ Return("save_data", TRUE, None, <<>>)
    /\ NoDevCall
    /\ UNCHANGED <<pcan_available, initialized, channel, baudrate, message_counter,
                   read_buffer, recording, stream_file, first_message, file_exists,
                   file, reader_running, reader_thread, rpc, ritem, rch, devOpen,
                   delivered, timer_running, timer_thread, timer_logs,
                   timer_response_buffer, stop_timer_event, tpc, tloc, heard>>

\* the foreground steps of initialize and release
Connection ==
    \/ \E ch \in Channels, bd \in Baudrates : initialize_Call(ch, bd)
    \/ initialize_Open
    \/ initialize_Recording
    \/ initialize_FirstMessage
    \/ initialize_Finally
    \/ release_Call
    \/ release_Join
    \/ release_CloseSession
    \/ release_CloseArray
    \/ release_CloseFile
    \/ release_Uninitialize
    \/ release_Reset
    \/ release_Clear

\* the foreground steps of the two read operations
Reads(ids) ==
    \/ read_all_messages_Call
    \/ read_all_messages_Drain
    \/ read_message_Call
    \/ read_message_DeviceOk(ids)
    \/ read_message_DeviceNone

\* the foreground steps of the sequencer's start and stop
Sequencer(scripts, bases) ==
    \/ \E s \in scripts, d \in DefaultIntervals, b \in bases :
         start_timer_sequence_Call(s, d, b)
    \/ start_timer_sequence_ClearEvent
    \/ start_timer_sequence_ClearLogs
    \/ start_timer_sequence_ClearBuffer
    \/ start_timer_sequence_Thread
    \/ stop_timer_sequence_Call
    \/ stop_timer_sequence_Join
    \/ stop_timer_sequence_Flag

\* the foreground steps of start_timer_sequence
Start(scripts, bases) ==
    \/ \E s \in scripts, d \in DefaultIntervals, b \in bases :
         start_timer_sequence_Call(s, d, b)
    \/ start_timer_sequence_ClearEvent
    \/ start_timer_sequence_ClearLogs
    \/ start_timer_sequence_ClearBuffer
    \/ start_timer_sequence_Thread

\* the foreground steps of one initialize with valid arguments
ConnectOnce ==
    \/ ~initialized /\ initialize_Call("PCAN_USBBUS1", "PCAN_BAUD_500K")
    \/ initialize_Open
    \/ initialize_Recording
    \/ initialize_FirstMessage
    \/ initialize_Finally

\* sequences on a bridge that is connected once: the reader loop feeds the runs.
\* No run is stopped, so a run starts only after the one before has ended.
NextSeq ==
    \/ ConnectOnce
    \/ Start({ScriptScenario}, BaseIds)
    \/ \E r \in ReaderIds : reader_loop(r, {1410, 1411})
    \/ \E t \in TimerIds : timer_write_loop_Alone(t)

SpecSeq == Init /\ [][NextSeq]_vars

\* start and stop on a bridge that is never connected: every write fails at
\* the connected check and the response buffer stays empty, so the device
\* write and the pops are never reached
NextTimer ==
    \/ Sequencer({ScriptTwo, ScriptInvalid}, {1280})
    \/ \E t \in TimerIds : timer_write_loop_Idle(t)

SpecTimer == Init /\ [][NextTimer]_vars

\* start and stop on a bridge connected beforehand, while the bus is silent:
\* the reader loop gets no frame and the pops are never reached
NextStale ==
    \/ ConnectOnce
    \/ \E s \in {ScriptTwo}, d \in DefaultIntervals, b \in {1280} :
         initialized /\ start_timer_sequence_Call(s, d, b)
    \/ start_timer_sequence_ClearEvent
    \/ start_timer_sequence_ClearLogs
    \/ start_timer_sequence_ClearBuffer
    \/ start_timer_sequence_Thread
    \/ initialized /\ stop_timer_sequence_Call
    \/ stop_timer_sequence_Join
    \/ stop_timer_sequence_Flag
    \/ \E t \in TimerIds : timer_write_loop_Idle(t)
    \/ \E t \in TimerIds : timer_write_loop_WriteDevice(t)

SpecStale == Init /\ [][NextStale]_vars

\* the two buffers: the reader loop pushes, the read operations and the runs pop
NextFlow ==
    \/ ConnectOnce
    \/ Start({ScriptScenario}, {1280})
    \/ read_all_messages_Call
    \/ read_all_messages_Drain
    \/ \E r \in ReaderIds : reader_loop(r, {1409})
    \/ \E t \in TimerIds : timer_write_loop_Alone(t)

SpecFlow == Init /\ [][NextFlow]_vars

\* initialize/release cycles: initialize is called on a disconnected bridge
NextCycles ==
    \/ ~initialized /\ \E ch \in Channels, bd \in Baudrates : initialize_Call(ch, bd)
    \/ initialize_Open
    \/ initialize_Recording
    \/ initialize_FirstMessage
    \/ initialize_Finally
    \/ release_Call
    \/ release_Join
    \/ release_CloseSession
    \/ release_CloseArray
    \/ release_CloseFile
    \/ release_Uninitialize
    \/ release_Reset
    \/ release_Clear
    \/ \E r \in ReaderIds : reader_loop(r, {1409})

SpecCycles == Init /\ [][NextCycles]_vars

NextConn ==
    \/ Connection
    \/ \E r \in ReaderIds : reader_loop(r, {1409})

SpecConn == Init /\ [][NextConn]_vars

\* the reader loop on a silent bus: pcan.Read has no frame to return
reader_loop_Silent(r) ==
    \/ reader_loop_Check(r)
    \/ reader_loop_Channel(r)
    \/ reader_loop_ReadNone(r)

\* writes by the request layer and by the sequencer, on a bridge that is
\* connected once or not at all, while the bus is silent
NextWrite ==
    \/ ConnectOnce
    \/ \E id \in {2047, 2048}, ext \in BOOLEAN :
         write_message_Call(HexDigits(id), <<1, 2>>, ext)
    \/ Start({ScriptTwo}, {1280})
    \/ \E r \in ReaderIds : reader_loop_Silent(r)
    \/ \E t \in TimerIds : timer_write_loop_Plain(t)
    \/ \E t \in TimerIds : timer_write_loop_WriteDevice(t)

SpecWrite == Init /\ [][NextWrite]_vars

\* the read operations on a bridge that is connected once, beside the
\* reader loop
NextRead ==
    \/ ConnectOnce
    \/ Reads({1409})
    \/ \E r \in ReaderIds : reader_loop(r, {1409})

SpecRead == Init /\ [][NextRead]_vars

\* one-row scripts of every kind of text are started on a bridge that is
\* never connected: each start parses its script and the run attempts the
\* command it yields
NextParse ==
    \/ Start(ParseScripts, {1280})
    \/ \E t \in TimerIds : timer_write_loop_Plain(t)

SpecParse == Init /\ [][NextParse]_vars

\* the foreground steps of release
Release ==
    \/ release_Call
    \/ release_Join
    \/ release_CloseSession
    \/ release_CloseArray
    \/ release_CloseFile
    \/ release_Uninitialize
    \/ release_Reset
    \/ release_Clear

\* the foreground steps of the first initialize
ConnectFirst ==
    \/ reader_thread = 0 /\ initialize_Call("PCAN_USBBUS1", "PCAN_BAUD_500K")
    \/ initialize_Open
    \/ initialize_Recording
    \/ initialize_FirstMessage
    \/ initialize_Finally

\* a bridge that is connected and released once while one-command runs
\* listen; the bus delivers two frames
NextTap ==
    \/ ConnectFirst
    \/ Release
    \/ Start({RowWithoutRepeat}, {1280})
    \/ \E r \in ReaderIds : reader_loop_Silent(r)
    \/ \E r \in ReaderIds : delivered < 2 /\ reader_loop_ReadOk(r, {1409})
    \/ \E r \in ReaderIds : reader_loop_Push(r)
    \/ \E r \in ReaderIds : reader_loop_Separator(r)
    \/ \E r \in ReaderIds : reader_loop_Record(r)
    \/ \E t \in TimerIds : timer_write_loop_Alone(t)

SpecTap == Init /\ [][NextTap]_vars

\* a bridge that is connected and released once, on a silent bus, while
\* one-command runs and request-layer writes transmit
NextUnplug ==
    \/ ConnectFirst
    \/ Release
    \/ write_message_Call(HexDigits(291), <<1, 2>>, FALSE)
    \/ Start({RowWithoutRepeat}, {1280})
    \/ \E r \in ReaderIds : reader_loop_Silent(r)
    \/ \E t \in TimerIds : timer_write_loop_Plain(t)
    \/ \E t \in TimerIds : timer_write_loop_WriteDevice(t)

SpecUnplug == Init /\ [][NextUnplug]_vars

\* log files found on disk at construction: a closed array of one session as
\* release() writes it, the same followed by a newline, and an empty array
ClosedLog == <<LB, NL, HDR, NL, NL, END, NL, RB>>
ExistingLogs == {ClosedLog, ClosedLog \o <<NL>>, <<LB, RB>>}

\* the state after construction when the log file is already there
InitExisting ==
    /\ pcan_available \in BOOLEAN
    /\ initialized = FALSE
    /\ channel = None
    /\ baudrate = None
    /\ message_counter = 0
    /\ read_buffer = <<>>
    /\ recording = FALSE
    /\ stream_file = None
    /\ first_message = TRUE
    /\ file_exists = TRUE
    /\ file \in ExistingLogs
    /\ reader_running = FALSE
    /\ reader_thread = 0
    /\ rpc = [r \in ReaderIds |-> "unborn"]
    /\ ritem = [r \in ReaderIds |-> NoItem]
    /\ rch = [r \in ReaderIds |-> None]
    /\ devOpen = {}
    /\ delivered = 0
    /\ devEvent = NoEvent
    /\ fgPc = "idle"
    /\ fgRet = NoRet
    /\ fgMsgs = <<>>
    /\ fgRes = None
    /\ fgArg = 0
    /\ fgSnap = <<>>
    /\ timer_running = FALSE
    /\ timer_thread = 0
    /\ timer_logs = <<>>
    /\ timer_response_buffer = <<>>
    /\ stop_timer_event = FALSE
    /\ tpc = [t \in TimerIds |-> "unborn"]
    /\ tloc = [t \in TimerIds |-> NoLocals]
    /\ heard = {}
    /\ data_file_exists = FALSE
    /\ data_file = <<>>
    /\ saved = <<>>

\* one connection and release on a log file that is already there
NextReopen ==
    \/ ConnectFirst
    \/ Release
    \/ \E r \in ReaderIds : reader_loop(r, {1409})

SpecReopen == InitExisting /\ [][NextReopen]_vars

\* one connection and release; each started reader thread keeps being
\* scheduled and its time.sleep(0.05) ends
SpecListen ==
    /\ Init
    /\ [][NextReopen]_vars
    /\ \A r \in ReaderIds : WF_vars(reader_loop(r, {1409}))

\* start and stop of one-command runs on a bridge connected beforehand,
\* while the bus is silent
NextRun ==
    \/ ConnectFirst
    \/ initialized /\ start_timer_sequence_Call(RowWithoutRepeat, 2000, 1280)
    \/ start_timer_sequence_ClearEvent
    \/ start_timer_sequence_ClearLogs
    \/ start_timer_sequence_ClearBuffer
    \/ start_timer_sequence_Thread
    \/ initialized /\ stop_timer_sequence_Call
    \/ stop_timer_sequence_Join
    \/ stop_timer_sequence_Flag
    \/ \E t \in TimerIds : timer_write_loop_Idle(t)
    \/ \E t \in TimerIds : timer_write_loop_WriteDevice(t)

\* the scheduling of the sequencer: a call that has begun goes on to its
\* return, a started thread keeps being scheduled, its device write returns,
\* and the time of a wait loop runs out however often the loop polls
SequencerFairness ==
    /\ WF_vars(start_timer_sequence_ClearEvent \/ start_timer_sequence_ClearLogs
               \/ start_timer_sequence_ClearBuffer \/ start_timer_sequence_Thread)
    /\ WF_vars(stop_timer_sequence_Join \/ stop_timer_sequence_Flag)
    /\ \A t \in TimerIds :
         /\ WF_vars(timer_write_loop_Idle(t) \/ timer_write_loop_WriteDevice(t))
         /\ SF_vars(timer_write_loop_WaitOver(t))
         /\ SF_vars(timer_write_loop_PostOver(t))

SpecRun == Init /\ [][NextRun]_vars /\ SequencerFairness

\* save_data calls alone: the request layer runs one request at a time
NextSave == \E msgs \in SaveBatches : save_data_Call(msgs)

SpecSave == Init /\ [][NextSave]_vars

\* the read operations beside the reader loops of a bridge that is connected,
\* released and connected again; the bus delivers two frames
NextShare ==
    \/ ConnectOnce
    \/ Release
    \/ read_all_messages_Call
    \/ read_all_messages_Drain
    \/ read_message_Call
    \/ read_message_DeviceNone
    \/ \E r \in ReaderIds : reader_loop_Silent(r)
    \/ \E r \in ReaderIds : delivered < 2 /\ reader_loop_ReadOk(r, {1409})
    \/ \E r \in ReaderIds : reader_loop_Push(r)
    \/ \E r \in ReaderIds : reader_loop_Separator(r)
    \/ \E r \in ReaderIds : reader_loop_Record(r)

SpecShare == Init /\ [][NextShare]_vars

\* two one-command runs on a bridge connected beforehand: the first run is
\* stopped, and the bus delivers one frame once the second is started
NextEcho ==
    \/ ConnectFirst
    \/ initialized /\ start_timer_sequence_Call(RowWithoutRepeat, 2000, 1280)
    \/ start_timer_sequence_ClearEvent
    \/ start_timer_sequence_ClearLogs
    \/ start_timer_sequence_ClearBuffer
    \/ start_timer_sequence_Thread
    \/ timer_thread = 1 /\ stop_timer_sequence_Call
    \/ stop_timer_sequence_Join
    \/ stop_timer_sequence_Flag
    \/ \E r \in ReaderIds : timer_thread = 2 /\ reader_loop_Silent(r)
    \/ \E r \in ReaderIds : delivered < 1 /\ reader_loop_ReadOk(r, {1409})
    \/ \E r \in ReaderIds : reader_loop_Push(r)
    \/ \E r \in ReaderIds : reader_loop_Separator(r)
    \/ \E r \in ReaderIds : reader_loop_Record(r)
    \/ \E t \in TimerIds : timer_write_loop(t)

SpecEcho == Init /\ [][NextEcho]_vars

\* one connection and release on a bus that is never idle once the session
\* file is closed
NextFlood ==
    \/ ConnectFirst
    \/ Release
    \/ \E r \in ReaderIds : reader_loop_Silent(r)
    \/ \E r \in ReaderIds : ~recording /\ reader_loop_ReadFlood(r, {1409})
    \/ \E r \in ReaderIds : reader_loop_Push(r)
    \/ \E r \in ReaderIds : reader_loop_Separator(r)

\* the threads keep being scheduled: release() goes on to its return, and a
\* reader thread takes its next step, whatever the device answers
SpecFlood ==
    /\ Init
    /\ [][NextFlood]_vars
    /\ WF_vars(Release)
    /\ \A r \in ReaderIds :
         WF_vars(\/ reader_loop_Silent(r)
                 \/ ~recording /\ reader_loop_ReadFlood(r, {1409})
                 \/ reader_loop_Push(r)
                 \/ reader_loop_Separator(r))

\* start and stop of one-command runs on a bridge that is connected and
\* released once, while the bus is silent
NextDrop ==
    \/ NextRun
    \/ Release

SpecDrop == Init /\ [][NextDrop]_vars

\* every operation of the service
Next ==
    \/ Connection
    \/ Reads(FrameIds)
    \/ Sequencer(Scripts, BaseIds)
    \/ get_timer_logs_Call
    \/ \E id \in {291, 2048}, ext \in BOOLEAN :
         write_message_Call(HexDigits(id), <<1, 2>>, ext)
    \/ \E r \in ReaderIds : reader_loop(r, FrameIds)
    \/ \E t \in TimerIds : timer_write_loop(t)

Spec == Init /\ [][Next]_vars

(***************************************************************************)
(* The session log as JSON.  JsonStep is the automaton that accepts an     *)
(* array of one or more comma-separated sessions, a session being HDR,     *)
(* zero or more comma-separated REC tokens, and END; whitespace is skipped.*)
(***************************************************************************)
JsonStep(s, tok) ==
    IF tok = "NL" THEN s
    ELSE IF s = "start" /\ tok = "LB" THEN "array"
    ELSE IF s \in {"array", "nextSession"} /\ tok = "HDR" THEN "messages"
    ELSE IF s \in {"messages", "nextRecord"} /\ tok = "REC" THEN "record"
    ELSE IF s \in {"messages", "record"} /\ tok = "END" THEN "session"
    ELSE IF s = "record" /\ tok = "COMMA" THEN "nextRecord"
    ELSE IF s = "session" /\ tok = "COMMA" THEN "nextSession"
    ELSE IF s = "session" /\ tok = "RB" THEN "done"
    ELSE "bad"

RECURSIVE JsonRun(_, _)
JsonRun(s, f) == IF f = <<>> THEN s ELSE JsonRun(JsonStep(s, Head(f).tok), Tail(f))

\* the arrival numbers of the records of the file, in file order
Recorded(f) ==
    LET recs == SelectSeq(f, LAMBDA x : x.tok = "REC")
    IN [i \in 1..Len(recs) |-> ParseHex(recs[i].data[1])]

\* the log entries of type "sent"
SentEntries(log) == SelectSeq(log, LAMBDA e : e.type = "sent")

\* the sent entries a run of `commands` by thread t is to produce
ExpectedSent(commands, t) ==
    [i \in 1..Len(Expand(commands)) |->
        [Entry("sent", "Sent", t) EXCEPT !.id = Expand(commands)[i].id,
                                         !.data = HexData(Expand(commands)[i].data)]]

(***************************************************************************)
(* Properties.                                                             *)
(***************************************************************************)

\* C1: at most one timer thread (Sequencer execution task) is alive at any
\* time, whatever the interleaving of start, stop (its join may time out)
\* and completion.
C1_AtMostOneTimerThread == Cardinality(AliveTimers) <= 1

\* C2: a start_timer_sequence call made while timer_running is set returns
\* the "already running" failure in that step and leaves timer_logs,
\* timer_response_buffer, the stop event and timer_running as they were.
C2_StartWhileRunningRejected ==
    [][(/\ fgPc = "idle"
        /\ timer_running
        /\ fgRet'.op = "start_timer_sequence" \/ fgPc' = "start_event")
       => /\ fgRet'.op = "start_timer_sequence"
          /\ ~fgRet'.success
          /\ fgRet'.error = "Timer sequence already running"
          /\ UNCHANGED <<timer_logs, timer_response_buffer, stop_timer_event,
                         timer_running, timer_thread>>]_vars

\* a start has just been rejected while a run with a non-empty log goes on
C2_Witness ==
    /\ fgRet.op = "start_timer_sequence"
    /\ fgRet.error = "Timer sequence already running"
    /\ timer_running
    /\ timer_logs # <<>>
    /\ AliveTimers # {}

\* C3: a stop_timer_sequence call made while timer_running is clear returns
\* the "not running" failure in that step and leaves timer_logs, the stop
\* event and timer_running as they were.
C3_StopWhileIdleRejected ==
    [][(/\ fgPc = "idle"
        /\ ~timer_running
        /\ fgRet'.op = "stop_timer_sequence" \/ fgPc' = "stop_join")
       => /\ fgRet'.op = "stop_timer_sequence"
          /\ ~fgRet'.success
          /\ fgRet'.error = "Timer sequence not running"
          /\ UNCHANGED <<timer_logs, stop_timer_event, timer_running>>]_vars

\* a stop has just been rejected after a run has ended and left its log
C3_Witness ==
    /\ fgRet.op = "stop_timer_sequence"
    /\ fgRet.error = "Timer sequence not running"
    /\ ~timer_running
    /\ timer_logs # <<>>

\* C4: an initialize call made while the bridge is connected returns failure
\* in that step and changes nothing: neither the connection state, nor the
\* recording state, the session log, or the reader loop.
C4_InitializeWhileConnectedRejected ==
    [][(/\ fgPc = "idle"
        /\ initialized
        /\ fgRet'.op = "initialize" \/ fgPc' = "init_open")
       => /\ fgRet'.op = "initialize"
          /\ ~fgRet'.success
          /\ UNCHANGED <<initialized, channel, baudrate, recording, stream_file,
                         first_message, file, reader_running, reader_thread, rpc>>]_vars

\* C5: a frame a run pops from the response buffer, in a wait window or in
\* the post-sequence window, is added to the run's received responses if its
\* identifier is base_id + 129 or base_id + 130, and is dropped otherwise.
C5_CollectedIffAccepted ==
    [][\A t \in TimerIds :
         (/\ tpc[t] \in {"pop", "ppop"}
          /\ tpc'[t] \in {"drain", "pdrain"})
         => LET msg == Head(timer_response_buffer)
                id == ParseHex(msg.id)
                n == Len(tloc[t].received)
            IN IF id = tloc[t].base_id + 129 \/ id = tloc[t].base_id + 130
               THEN /\ Len(tloc'[t].received) = n + 1
                    /\ SubSeq(tloc'[t].received, 1, n) = tloc[t].received
                    /\ ParseHex(tloc'[t].received[n + 1].response_id) = id
                    /\ tloc'[t].received[n + 1].data = HexData(msg.data)
               ELSE tloc'[t].received = tloc[t].received]_vars

\* a run with base 1280 has popped frames 1 (1410 = base + 130, collected)
\* and 2 (1411, dropped) and holds the one response
C5_Witness ==
    \E t \in TimerIds :
        /\ tloc[t].base_id = 1280
        /\ Len(tloc[t].received) = 1
        /\ ParseHex(tloc[t].received[1].response_id) = 1410
        /\ [t |-> t, frame |-> [id |-> FormatId(1411), data |-> <<2>>, timestamp |-> 2]]
             \in heard
        /\ tpc[t] = "pdrain"
        /\ timer_response_buffer = <<>>
        /\ delivered = 2
        /\ \A r \in ReaderIds : rpc[r] \notin {"push"}

\* C6: the read buffer and the response buffer never hold more than their
\* capacity; a push by the reader loop is always possible, and it puts the
\* frame last, after the frames the buffer held, less the oldest one when
\* the buffer was full.
C6_BoundedFifoBuffers ==
    /\ [](/\ Len(read_buffer) <= ReadBufferMaxLen
          /\ Len(timer_response_buffer) <= ResponseBufferMaxLen
          /\ \A r \in ReaderIds : rpc[r] = "push" => ENABLED reader_loop_Push(r))
    /\ [][\A r \in ReaderIds :
            (rpc[r] = "push" /\ rpc'[r] = "stream")
            => /\ read_buffer' =
                    (IF Len(read_buffer) = ReadBufferMaxLen
                     THEN Tail(read_buffer) ELSE read_buffer) \o <<ritem[r]>>
               /\ timer_response_buffer' =
                    IF timer_running
                    THEN (IF Len(timer_response_buffer) = ResponseBufferMaxLen
                          THEN Tail(timer_response_buffer)
                          ELSE timer_response_buffer) \o <<ritem[r]>>
                    ELSE timer_response_buffer]_vars

\* one frame more than its capacity was delivered while run 1 listened, the
\* run has popped none, and the response buffer holds all but the first: the push of the
\* last onto the full buffer evicted the first
C6_Witness ==
    /\ Cardinality({h \in heard : h.t = 1}) = ResponseBufferMaxLen + 1
    /\ Listening(1)
    /\ tpc[1] \notin {"pop", "ppop"}
    /\ tloc[1].received = <<>>
    /\ Len(timer_response_buffer) = ResponseBufferMaxLen
    /\ timer_response_buffer[1].timestamp = 2
    /\ timer_response_buffer[ResponseBufferMaxLen].timestamp = ResponseBufferMaxLen + 1
    /\ Len(read_buffer) = ReadBufferMaxLen
    /\ read_buffer[ReadBufferMaxLen].timestamp = ReadBufferMaxLen + 1

\* C7: a successful read_all_messages returns every frame the read buffer
\* held when it was called, in arrival order, and leaves the buffer empty;
\* called on an empty buffer and finishing with no step in between, it
\* returns no frame.
C7_ReadAllReturnsBuffer ==
    [][(fgPc = "drain" /\ fgRet'.op = "read_all_messages" /\ fgRet'.success)
       => LET out == fgRet'.messages
          IN /\ \A i \in 1..Len(fgSnap) : \E j \in 1..Len(out) : out[j] = fgSnap[i]
             /\ \A i, j \in 1..Len(out) : i < j => out[i].timestamp < out[j].timestamp
             /\ read_buffer' = <<>>
             /\ (fgSnap = <<>> /\ fgMsgs = <<>>) => out = <<>>]_vars

\* C8: when a release has returned success, in a history of initialize and
\* release cycles begun without a log file, the session log is a JSON array
\* of closed session objects, one per session header, whose records are in
\* arrival order.
C8_SessionLogIsJsonArray ==
    (fgRet.op = "release" /\ fgRet.success)
    => /\ JsonRun("start", file) = "done"
       /\ \A i, j \in 1..Len(Recorded(file)) :
            i < j => Recorded(file)[i] < Recorded(file)[j]

\* C9: once a run's post-sequence window is over, every frame with an
\* accepted identifier that the device delivered to the reader loop while
\* the run was listening is among the run's received responses, from which
\* its summary is written.
C9_HeardResponsesAreSummarised ==
    \A t \in TimerIds :
        tpc[t] \in {"finlog", "summary", "emit", "fin"}
        => \A h \in heard :
             (/\ h.t = t
              /\ ParseHex(h.frame.id) \in {tloc[t].base_id + 129, tloc[t].base_id + 130})
             => \E i \in 1..Len(tloc[t].received) :
                  /\ ParseHex(tloc[t].received[i].response_id) = ParseHex(h.frame.id)
                  /\ tloc[t].received[i].data = HexData(h.frame.data)

\* C10: when a run that was not stopped, and whose writes all
\* succeeded, has logged "Sequence Finished", it has made one attempt per
\* repeat of every command, and the sent entries of the log are, for each
\* command in script order, `repeat` entries with its identifier and payload.
C10_SentEntriesFollowScript ==
    \A t \in TimerIds :
        (/\ tpc[t] = "summary"
         /\ ~tloc[t].stopped
         /\ ~tloc[t].cancelled
         /\ \A i \in 1..Len(tloc[t].attempts) : tloc[t].attempts[i].type = "sent")
        => /\ Len(tloc[t].attempts) = TotalRepeat(tloc[t].commands)
           /\ SentEntries(timer_logs) = ExpectedSent(tloc[t].commands, t)

\* C11: after the command loop, whether it ended normally or by
\* cancellation, the run is in a post-sequence window of the last-used
\* interval: so long as that interval has not passed, the run's next poll
\* goes on to drain the response buffer.
C11_PostWindowDrains ==
    \A t \in TimerIds :
        (tpc[t] = "pwait" /\ last_interval_ms(tloc[t]) > 0)
        => ENABLED (timer_write_loop_PostTick(t) /\ tpc'[t] = "pdrain")

\* C12: when a run ends without an execution error, the log ends with the
\* summary entry, whose expected count is the sum of the repeats of the
\* run's commands and whose recv count is the number of its correlated
\* responses, followed by one recv entry per correlated response, in the
\* order of correlation.
C12_LogEndsWithSummary ==
    \A t \in TimerIds :
        (tpc[t] = "fin" /\ ~tloc[t].errored)
        => LET k == Len(tloc[t].received)
               m == Len(timer_logs)
           IN /\ m >= k + 1
              /\ timer_logs[m - k].tag = "Summary"
              /\ timer_logs[m - k].by = t
              /\ timer_logs[m - k].expected = TotalRepeat(tloc[t].commands)
              /\ timer_logs[m - k].recv = k
              /\ \A i \in 1..k :
                   /\ timer_logs[m - k + i].type = "recv"
                   /\ timer_logs[m - k + i].by = t
                   /\ timer_logs[m - k + i].id = ParseHex(tloc[t].received[i].response_id)
                   /\ timer_logs[m - k + i].data = tloc[t].received[i].data

\* C13: a stop_timer_sequence call made while timer_running is set is
\* accepted, and when it returns it returns success with timer_running
\* clear, whether or not the timer thread has ended.
C13_StopReturnsIdle ==
    [][/\ (/\ fgPc = "idle"
           /\ timer_running
           /\ fgRet'.op = "stop_timer_sequence" \/ fgPc' = "stop_join")
          => fgPc' = "stop_join"
       /\ (fgPc \in {"stop_join", "stop_flag"} /\ fgPc' = "idle")
          => /\ fgRet'.op = "stop_timer_sequence"
             /\ fgRet'.success
             /\ ~timer_running']_vars

\* a stop has returned success and the sequencer is idle while the thread it
\* was to stop is still alive: the join timed out
C13_Witness ==
    /\ fgRet.op = "stop_timer_sequence"
    /\ fgRet.success
    /\ ~timer_running
    /\ timer_thread \in AliveTimers

\* C14: a release call made while the bridge is not connected returns
\* failure in that step, calls no device function and changes nothing; a
\* release call made while connected returns, with either device status,
\* leaving the bridge not connected, channel and baudrate cleared, recording
\* off and the log file closed, the reader loop's stop requested and the
\* read buffer empty.
C14_ReleaseResets ==
    [][/\ (/\ fgPc = "idle"
           /\ ~initialized
           /\ fgRet'.op = "release" \/ fgPc' \in {"rel_join", "rel_close"})
          => /\ fgRet'.op = "release"
             /\ ~fgRet'.success
             /\ devEvent' = NoEvent
             /\ UNCHANGED <<initialized, channel, baudrate, message_counter,
                            read_buffer, recording, stream_file, first_message,
                            file, reader_running, reader_thread, rpc, devOpen>>
       /\ (fgPc \in {"rel_join", "rel_close", "rel_bracket", "rel_fclose",
                     "rel_uninit", "rel_reset", "rel_clear"} /\ fgPc' = "idle")
          => /\ fgRet'.op = "release"
             /\ ~initialized'
             /\ channel' = None
             /\ baudrate' = None
             /\ ~recording'
             /\ stream_file' = None
             /\ ~reader_running'
             /\ read_buffer' = <<>>]_vars

\* a release has returned the device's failure, after a session in which a
\* frame was received, and the bridge is disconnected with an empty buffer
\* while the channel is still open in the device
C14_Witness ==
    /\ fgRet.op = "release"
    /\ fgRet.error = "Failed to release PCAN"
    /\ ~initialized
    /\ channel = None
    /\ read_buffer = <<>>
    /\ delivered >= 1
    /\ devOpen # {}

\* C15: a write_message call made while the bridge is not connected returns
\* failure, calls no device function and changes nothing; a write_message
\* call made while connected whose pcan.Write returns a status other than
\* OK returns failure and leaves the bridge connected.
C15_WriteFailures ==
    [][(fgPc = "idle" /\ fgRet'.op = "write_message")
       => /\ ~initialized
             => /\ ~fgRet'.success
                /\ devEvent' = NoEvent
                /\ UNCHANGED <<pcan_available, initialized, channel, baudrate,
                               message_counter, read_buffer, recording, stream_file,
                               first_message, file_exists, file, reader_running,
                               reader_thread, rpc, ritem, rch, devOpen, delivered,
                               timer_running, timer_thread, timer_logs,
                               timer_response_buffer, stop_timer_event, tpc, tloc>>
          /\ initialized
             => /\ devEvent'.op = "Write"
                /\ devEvent'.status # "OK"
                   => /\ ~fgRet'.success
                      /\ initialized'
                      /\ UNCHANGED <<channel, baudrate, devOpen>>]_vars

\* a write on the connected bridge has just failed with the device's status
C15_Witness ==
    /\ fgRet.op = "write_message"
    /\ ~fgRet.success
    /\ fgRet.error = "Failed to send message"
    /\ devEvent.op = "Write"
    /\ devEvent.status = "ERROR"
    /\ initialized
    /\ channel \in devOpen

\* C20: a frame handed to pcan.Write by write_message, for the request
\* layer or for a timer thread, when the caller asked for no extended frame,
\* is an extended frame exactly when its identifier is greater than 0x7FF.
C20_ExtendedIffAboveStdMax ==
    (devEvent.op = "Write" /\ ~devEvent.req)
    => (devEvent.ext <=> devEvent.id > 2047)

\* a timer thread that has sent 0x123 as a standard frame has just handed
\* 0x800 to the device as an extended frame
C20_Witness ==
    /\ devEvent.op = "Write"
    /\ devEvent.id = 2048
    /\ ~devEvent.req
    /\ devEvent.ext
    /\ fgRet = NoRet
    /\ \E t \in TimerIds :
         /\ tpc[t] = "logsend"
         /\ Cmd(t).id = 2048
         /\ Len(tloc[t].attempts) = 1
         /\ tloc[t].attempts[1].type = "sent"

\* C16: read_message and read_all_messages call no device read: every
\* pcan.Read or pcan.ReadFD call is made by the reader loop.
C16_OnlyReaderReadsDevice ==
    devEvent.op \in {"Read", "ReadFD"} => devEvent.by = "reader"

\* C17: a start_timer_sequence call with a script that yields no command,
\* made while no sequence runs, returns the "no valid commands" failure in
\* that step, leaves timer_running clear, starts no thread, and leaves
\* timer_logs, timer_response_buffer and the stop event as they were.
C17_EmptyScriptRejected ==
    [][\A d \in DefaultIntervals, b \in BaseIds :
         (~timer_running /\ start_timer_sequence_Call(ScriptInvalid, d, b))
         => /\ fgPc' = "idle"
            /\ fgRet'.op = "start_timer_sequence"
            /\ ~fgRet'.success
            /\ fgRet'.error = "No valid commands found in input"
            /\ ~timer_running'
            /\ UNCHANGED <<timer_logs, timer_response_buffer, stop_timer_event,
                           timer_thread, tpc, tloc>>]_vars

\* a start has just been rejected for its script, after a run that has
\* ended and left its log
C17_Witness ==
    /\ fgRet.op = "start_timer_sequence"
    /\ fgRet.error = "No valid commands found in input"
    /\ ~timer_running
    /\ AliveTimers = {}
    /\ Len(timer_logs) >= 3
    /\ \E t \in TimerIds : tpc[t] = "dead"

\* the hexadecimal digits of a byte sequence, two per byte
Nibbles(bytes) ==
    [i \in 1..(2 * Len(bytes)) |->
        IF i % 2 = 1 THEN bytes[(i + 1) \div 2] \div 16 ELSE bytes[i \div 2] % 16]

\* bytes is the n-byte big-endian encoding of the value of field f modulo
\* 256^n, f being a hexadecimal literal or a decimal one below 2^24
EncodesLow(bytes, f, n) ==
    /\ Len(bytes) = n
    /\ \A i \in 1..n : bytes[i] \in 0..255
    /\ IF f.k = "hex"
       THEN LET p == ZeroPad(f.d, 2 * n)
            IN Nibbles(bytes) = SubSeq(p, Len(p) - 2 * n + 1, Len(p))
       ELSE IF n = 2
       THEN 256 * bytes[1] + bytes[2] = f.v % 65536
       ELSE /\ \A i \in 1..(n - 3) : bytes[i] = 0
            /\ 65536 * bytes[n - 2] + 256 * bytes[n - 1] + bytes[n] = f.v

\* C18: a script row whose command-type and payload texts are any of the
\* sample texts is parsed, without an exception, into one command of exactly
\* 8 data bytes; when the text is a non-negative number v, the first 2 are
\* the big-endian encoding of the command type modulo 256^2 and the last 6
\* that of the payload modulo 256^6 (zero-padded on the left, masked to the
\* low bytes).
C18_FieldsEncodeBigEndian ==
    [][\A f2 \in CmdFields, f6 \in PayFields, d \in DefaultIntervals, b \in BaseIds :
         (~timer_running /\ start_timer_sequence_Call(RowOfData(f2, f6), d, b))
         => /\ fgPc' = "start_event"
            /\ Len(fgMsgs') = 1
            /\ Len(fgMsgs'[1].data) = 8
            /\ f2.k \in {"hex", "dec"} => EncodesLow(SubSeq(fgMsgs'[1].data, 1, 2), f2, 2)
            /\ f6.k \in {"hex", "dec"} => EncodesLow(SubSeq(fgMsgs'[1].data, 3, 8), f6, 6)]_vars

\* a run holds the command parsed from command type 0x12345 and payload
\* 0xFE000000000123: both masked to their low bytes
C18_Witness ==
    \E t \in TimerIds :
        /\ tpc[t] = "wcheck"
        /\ tloc[t].commands[1].data = <<35, 69, 0, 0, 0, 0, 1, 35>>

\* C19: a script row is parsed into a command whose repeat is the number in
\* its repeat column when that is 1 or more, and 1 when it is 0 or less,
\* blank, not a number, or missing; no command a run holds has a repeat
\* below 1.
C19_RepeatAtLeastOne ==
    /\ [](\A t \in TimerIds : \A i \in 1..Len(tloc[t].commands) :
            tloc[t].commands[i].repeat >= 1)
    /\ [][\A d \in DefaultIntervals, b \in BaseIds :
            /\ \A rp \in RepeatFields :
                 (~timer_running /\ start_timer_sequence_Call(RowOfRepeat(rp), d, b))
                 => /\ Len(fgMsgs') = 1
                    /\ fgMsgs'[1].repeat = IF rp.k = "dec" /\ rp.v >= 1 THEN rp.v ELSE 1
            /\ (~timer_running /\ start_timer_sequence_Call(RowWithoutRepeat, d, b))
               => /\ Len(fgMsgs') = 1
                  /\ fgMsgs'[1].repeat = 1]_vars

\* the second run, started with a script of the repeat samples (command
\* type 1, payload 2), holds a command of repeat 1 and is making its one
\* attempt
C19_Witness ==
    /\ tpc[1] = "dead"
    /\ tpc[2] = "wcheck"
    /\ tloc[2].commands[1].data = <<0, 1, 0, 0, 0, 0, 0, 2>>
    /\ tloc[2].commands[1].repeat = 1
    /\ tloc[2].ri = 0

\* the reader threads that have been started and have not ended
AliveReaders == {r \in ReaderIds : rpc[r] \notin {"unborn", "dead"}}

\* C21: when release() invokes the device's Uninitialize, the reader loop
\* has exited: no reader thread is alive at that step, so none reads the
\* device afterwards.
C21_UninitializeAfterReaderExit ==
    devEvent.op = "Uninitialize" => AliveReaders = {}

\* C23: at most one reader loop thread is alive at any time, whatever the
\* sequence of initialize and release calls.
C23_AtMostOneReaderLoop == Cardinality(AliveReaders) <= 1

\* C24: at every reachable state the session log is a prefix of a JSON array
\* of sessions: records are separated by one comma with none before the
\* first, and nothing is written after a session's closing text but the
\* array's bracket or the next session.
C24_LogIsJsonArrayPrefix == JsonRun("start", file) # "bad"

\* C22: no device write is issued after release() has invoked the device's
\* Uninitialize (the bridge is connected once): a write reaches the device
\* only while the bridge is connected and release() has not yet made that
\* call.
C22_NoWriteAfterUninitialize ==
    devEvent.op = "Write" => (initialized /\ fgPc \notin {"rel_reset", "rel_clear"})

\* the last element of a non-empty sequence
Last(s) == s[Len(s)]

ClosedArray(f) ==
    \/ JsonRun("start", f) = "done"
    \/ SelectSeq(f, LAMBDA x : x.tok # "NL") = <<LB, RB>>

\* C25: when initialize opens an existing log file that holds a closed JSON
\* array (whitespace may follow the bracket), the file afterwards is that
\* array without its bracket, a comma when it held a session, and the new
\* session's header: the text of a JSON array, read up to the inside of its
\* last session, with one session more than before.
C25_ReopenExtendsArray ==
    [][(fgPc = "init_open" /\ fgPc' = "init_rec" /\ file_exists /\ ClosedArray(file))
       => /\ JsonRun(IF NumSessions(file) = 0 THEN "array" ELSE "start",
                     IF NumSessions(file) = 0
                     THEN SelectSeq(file', LAMBDA x : x.tok # "LB")
                     ELSE file') = "messages"
          /\ NumSessions(file') = NumSessions(file) + 1]_vars

(***************************************************************************)
(* The saved file as JSON.  SaveStep is the automaton that accepts an      *)
(* array of zero or more comma-separated objects, each the SOBJ text, an   *)
(* array of zero or more comma-separated messages, and '}'; whitespace is  *)
(* skipped.                                                                *)
(***************************************************************************)
SaveStep(s, tok) ==
    IF tok = "NL" THEN s
    ELSE IF s = "start" /\ tok = "LB" THEN "array"
    ELSE IF s \in {"array", "nextObject"} /\ tok = "SOBJ" THEN "object"
    ELSE IF s = "object" /\ tok = "LB" THEN "messages"
    ELSE IF s \in {"messages", "nextMessage"} /\ tok = "MSG" THEN "message"
    ELSE IF s = "message" /\ tok = "COMMA" THEN "nextMessage"
    ELSE IF s \in {"messages", "message"} /\ tok = "RB" THEN "closed"
    ELSE IF s = "closed" /\ tok = "EOBJ" THEN "element"
    ELSE IF s = "element" /\ tok = "COMMA" THEN "nextObject"
    ELSE IF s \in {"array", "element"} /\ tok = "RB" THEN "done"
    ELSE "bad"

RECURSIVE SaveRun(_, _)
SaveRun(s, f) ==
    IF s = "bad" \/ f = <<>> THEN s ELSE SaveRun(SaveStep(s, Head(f).tok), Tail(f))

\* the message lists of the objects of the file, in file order: the k-th
\* list is made of the messages between the (k-1)-th and the k-th '}'
SavedSessions(f) ==
    LET ends == {i \in 1..Len(f) : f[i].tok = "EOBJ"}
        EndOf(k) == CHOOSE i \in ends : Cardinality({j \in ends : j <= i}) = k
        Between(a, b) == SelectSeq(SubSeq(f, a, b), LAMBDA x : x.tok = "MSG")
        MessagesOf(k) == Between(IF k = 1 THEN 1 ELSE EndOf(k - 1), EndOf(k))
    IN [k \in 1..Cardinality(ends) |->
          [m \in 1..Len(MessagesOf(k)) |-> MessagesOf(k)[m].data[1]]]

\* C26: starting from no file, after k >= 1 save_data calls the file is a
\* JSON array of exactly k objects, in call order, each holding the messages
\* of its call in the order given; before the first call there is no file.
C26_SavedFileIsArrayOfCalls ==
    IF saved = <<>>
    THEN ~data_file_exists
    ELSE /\ data_file_exists
         /\ SaveRun("start", data_file) = "done"
         /\ SavedSessions(data_file) = saved

\* three calls, the second of them without messages
C26_Witness ==
    /\ Len(saved) = 3
    /\ saved[1] = <<1, 2>>
    /\ saved[2] = <<>>
    /\ saved[3] = <<2>>
    /\ fgRet.op = "save_data"

\* C28: a reader loop ends only when a stop has been requested or the bridge
\* is no longer connected; a read that brings no frame - queue empty, any
\* other status, or an exception - sends it back to its loop condition, and
\* from there it reads the device again unless it has been stopped or the
\* bridge disconnected.
C28_ReaderLoopKeepsRunning ==
    /\ [][\A r \in ReaderIds :
            /\ (rpc[r] \notin {"unborn", "dead"} /\ rpc'[r] = "dead")
               => ~(reader_running /\ initialized)
            /\ (rpc[r] = "read" /\ rpc'[r] \notin {"read", "push"})
               => rpc'[r] = "check"]_vars
    /\ \A r \in ReaderIds :
         (rpc[r] = "check") ~> (rpc[r] = "read" \/ ~(reader_running /\ initialized))

\* a read has just brought no frame, and the loop is back at its condition
\* on a connected bridge
C28_Witness ==
    \E r \in ReaderIds :
        /\ rpc[r] = "check"
        /\ devEvent.op = "Read"
        /\ devEvent.by = "reader"
        /\ reader_running
        /\ initialized

\* C29: once stop_timer_sequence has set the stop event during a run, the
\* run's thread passes no further cancellation check: it takes up no command
\* (line 736), makes no repeat (line 744), and does not stay in its wait
\* loop past the next poll (line 769).
C29_CancelledRunStartsNothing ==
    [][\A t \in TimerIds :
         tloc[t].stopped
         => /\ ~(tpc[t] = "cmd" /\ tpc'[t] = "rep")
            /\ ~(tpc[t] = "rep" /\ tpc'[t] = "wcheck")
            /\ ~(tpc[t] = "wait" /\ tpc'[t] = "drain")]_vars

\* C30: whenever the sequencer is running it is idle again later
\* (timer_running false), whether the run completes its commands, is
\* cancelled, or fails with an error.
C30_RunEndsIdle == timer_running ~> ~timer_running

\* two runs have been started and have ended, one of them with a sequence
\* error, and the sequencer is idle
C30_Witness ==
    /\ ~timer_running
    /\ \A t \in TimerIds : tpc[t] = "dead"
    /\ \E i \in 1..Len(timer_logs) : timer_logs[i].tag = "Sequence Error"

\* C31: once start_timer_sequence has returned, the log that get_timer_logs
\* returns holds entries of the run started last only, none that a thread of
\* an earlier run has appended.
C31_LogHoldsCurrentRunOnly ==
    (fgPc = "idle" /\ timer_thread # 0)
    => \A i \in 1..Len(timer_logs) : timer_logs[i].by = timer_thread

\* stop_timer_sequence has been called during the run of thread t and has
\* returned
StopReturned(t) == tloc[t].stopped /\ fgPc \notin {"stop_join", "stop_flag"}

\* C37: after stop_timer_sequence has returned success, the thread of the
\* stopped run makes no further transmit attempt and appends no further
\* entry to the log.
C37_StoppedRunIsSilent ==
    [][\A t \in TimerIds :
         (StopReturned(t) /\ tpc'[t] # tpc[t])
         => /\ timer_logs' = timer_logs
            /\ tloc'[t].attempts = tloc[t].attempts
            /\ devEvent'.op # "Write"]_vars

\* C38: while the thread of the run started last is alive and
\* stop_timer_sequence has not been called on it, timer_running is true: no
\* thread of an earlier run clears it.
C38_RunningWhileRunAlive ==
    \A t \in TimerIds :
        (t = timer_thread /\ tpc[t] \notin {"unborn", "dead"} /\ ~tloc[t].stopped)
        => timer_running

\* C32: an initialize call that returns failure leaves the connection state,
\* the recording state, the log file, the reader threads and the device's
\* channels as they were; with an unknown channel or bit rate it returns
\* failure without any device call.
C32_FailedInitializeChangesNothing ==
    [][/\ (fgPc = "idle" /\ fgRet'.op = "initialize" /\ ~fgRet'.success)
          => UNCHANGED <<initialized, channel, baudrate, message_counter, recording,
                         stream_file, first_message, file_exists, file, reader_running,
                         reader_thread, rpc, devOpen>>
       /\ \A ch \in Channels, bd \in Baudrates :
            ((ch \notin ValidChannels \/ bd \notin ValidBaudrates) /\ initialize_Call(ch, bd))
            => /\ fgRet'.op = "initialize"
               /\ ~fgRet'.success
               /\ devEvent' = NoEvent]_vars

\* on a connected bridge an initialize has just failed at the device
C32_Witness ==
    /\ fgRet.op = "initialize"
    /\ ~fgRet.success
    /\ devEvent.op = "Initialize"
    /\ initialized
    /\ reader_running

\* a row with a well-formed identifier whose other fields are numbers or
\* blank
WellFormedRow(row) ==
    /\ row # <<>>
    /\ row[1].k \in {"hex", "dec"}
    /\ \A i \in 2..Len(row) : row[i].k \in {"hex", "dec", "empty"}

\* C33: the commands parsed from a script are exactly its rows with a
\* well-formed identifier and no field that is not a number, in their order:
\* any other row yields no command.
C33_CommandsAreWellFormedRows ==
    [][\A s \in ParseScripts, d \in DefaultIntervals, b \in BaseIds :
         (~timer_running /\ start_timer_sequence_Call(s, d, b))
         => LET rows == SelectSeq(s, WellFormedRow)
            IN IF rows = <<>>
               THEN /\ fgPc' = "idle"
                    /\ fgRet'.op = "start_timer_sequence"
                    /\ ~fgRet'.success
               ELSE /\ fgPc' = "start_event"
                    /\ Len(fgMsgs') = Len(rows)
                    /\ \A i \in 1..Len(rows) : fgMsgs'[i].id = Base0(rows[i][1])]_vars

\* the frames of msgs are in the order in which the device delivered them
InArrivalOrder(msgs) ==
    \A i, j \in 1..Len(msgs) : i < j => msgs[i].timestamp < msgs[j].timestamp

\* C34: the frames of one read_all_messages result are in arrival order,
\* however the pushes of the reader loops interleave with the read calls.
C34_ReadAllInArrivalOrder ==
    (fgRet.op = "read_all_messages" /\ fgRet.success) => InArrivalOrder(fgRet.messages)

\* the timer thread t collects a response in this step
Collects(t) ==
    /\ timer_write_loop_Pop(t) \/ timer_write_loop_PostPop(t)
    /\ Len(tloc'[t].received) = Len(tloc[t].received) + 1

\* C35: a collected response carries the identifier of the command the run
\* transmitted last before the frame was drained, in a wait window and in the
\* post-sequence window alike.
C35_TagIsLastTransmitted ==
    [][\A t \in TimerIds :
         Collects(t) => /\ tloc[t].tried # -1
                        /\ Last(tloc'[t].received).sent_id = HexDigits(tloc[t].tried)]_vars

\* the step appends one entry at the tail of the log, and evicts the oldest
\* entry when the log is full
TailAppend ==
    /\ timer_logs' # <<>>
    /\ timer_logs' = (IF Len(timer_logs) = TimerLogsMaxLen
                      THEN Tail(timer_logs) ELSE timer_logs)
                     \o <<Last(timer_logs')>>

\* C36: the sequence log never holds more entries than its capacity, and it
\* changes only by an append at the tail, which evicts the oldest entry when
\* the log is full, or by the clear of a start: the retained entries are in
\* append order.
C36_LogIsCappedAppendOnly ==
    /\ [](Len(timer_logs) <= TimerLogsMaxLen)
    /\ [][\/ timer_logs' = timer_logs
          \/ TailAppend
          \/ fgPc = "start_logs" /\ timer_logs' = <<>>]_vars

\* a run has filled the log and its first entries have been evicted: the log
\* ends with the run's summary and no longer begins with its first entry
C36_Witness ==
    /\ Len(timer_logs) = TimerLogsMaxLen
    /\ Last(timer_logs).tag = "Summary"
    /\ timer_logs[1].tag # "Starting Sequence..."
    /\ \A i \in 1..Len(timer_logs) : timer_logs[i].by = timer_thread

\* C39: once release() has asked the reader loop to stop, the reader thread
\* ends, whatever the device answers to its reads.
C39_ReaderLoopEnds ==
    \A r \in ReaderIds :
      (~reader_running /\ rpc[r] \notin {"unborn", "dead"}) ~> (rpc[r] = "dead")

\* release() has completed and the bridge has not been connected again
Released == reader_thread # 0 /\ ~initialized /\ fgPc # "rel_clear"

\* C40: release() leaves a running sequence alone.  Its steps change neither
\* the running flag, nor the stop event, nor a timer thread; once it has
\* completed, the sequencer stays running until the thread of its run ends,
\* and every write_message call of a run fails without a device write, and
\* the failed call is logged as an error entry.
C40_ReleaseLeavesRunAlone ==
    [][/\ Release => UNCHANGED <<timer_running, stop_timer_event, tpc, tloc>>
       /\ (Released /\ timer_running /\ ~timer_running')
          => (tpc[timer_thread] = "fin" /\ tpc'[timer_thread] = "dead")
       /\ \A t \in TimerIds :
            /\ (Released /\ timer_write_loop_WriteCheck(t))
               => (tpc'[t] = "logsend" /\ tloc'[t].res # "OK")
            /\ (Released /\ timer_write_loop_WriteDevice(t))
               => (devEvent'.op # "Write" /\ tloc'[t].res # "OK")
            /\ (Released /\ tloc[t].res # "OK" /\ timer_write_loop_LogSend(t))
               => Last(timer_logs').type = "error"]_vars
=============================================================================
